---- MODULE Spec2Model ----
(***************************************************************************)
(* Model of the 88code reset tool: eligibility filter, reset executor      *)
(* (retry/verify against the remote ledger) and the file-backed run lock.  *)
(* Strings are sequences of one-character strings so that case folding     *)
(* and trimming are computed character by character.                       *)
(***************************************************************************)
EXTENDS Integers, Sequences, FiniteSets, TLC

(***************************************************************************)
(* Strings                                                                 *)
(***************************************************************************)
LowerLetters == <<"a","b","c","d","e","f","g","h","i","j","k","l","m",
                  "n","o","p","q","r","s","t","u","v","w","x","y","z">>

UpperLetters == <<"A","B","C","D","E","F","G","H","I","J","K","L","M",
                  "N","O","P","Q","R","S","T","U","V","W","X","Y","Z">>

Whitespace == {" ", "\t", "\n", "\r"}

\* the upper-case form of every lower-case letter, and the reverse
UpperOf ==
    [c \in {LowerLetters[i] : i \in 1..Len(LowerLetters)} |->
        UpperLetters[CHOOSE i \in 1..Len(LowerLetters) : LowerLetters[i] = c]]

LowerOf ==
    [c \in {UpperLetters[i] : i \in 1..Len(UpperLetters)} |->
        LowerLetters[CHOOSE i \in 1..Len(UpperLetters) : UpperLetters[i] = c]]

ToUpperChar(c) == IF c \in DOMAIN UpperOf THEN UpperOf[c] ELSE c

ToLowerChar(c) == IF c \in DOMAIN LowerOf THEN LowerOf[c] ELSE c

\* strings.ToUpper
ToUpper(s) == [i \in 1..Len(s) |-> ToUpperChar(s[i])]

\* strings.ToLower
ToLower(s) == [i \in 1..Len(s) |-> ToLowerChar(s[i])]

RECURSIVE TrimLeft(_)
TrimLeft(s) ==
    IF s # <<>> /\ Head(s) \in Whitespace THEN TrimLeft(Tail(s)) ELSE s

RECURSIVE TrimRight(_)
TrimRight(s) ==
    IF s # <<>> /\ s[Len(s)] \in Whitespace
    THEN TrimRight(SubSeq(s, 1, Len(s) - 1))
    ELSE s

\* strings.TrimSpace
TrimSpace(s) == TrimRight(TrimLeft(s))

\* strings.EqualFold (ASCII): equal after case folding, nothing trimmed
EqualFold(s, t) == ToLower(s) = ToLower(t)

sEmpty        == <<>>
sPAYGO        == <<"P","A","Y","G","O">>
sPaygoLower   == <<"p","a","y","g","o">>
sPaygoMixed   == <<"P","a","y","g","o">>
sPaygoPadded  == <<" ","P","A","Y","G","O"," ">>
sPAY_PER_USE  == <<"P","A","Y","_","P","E","R","_","U","S","E">>
sPayPerUseLow == <<"p","a","y","_","p","e","r","_","u","s","e">>
sMONTHLY      == <<"M","O","N","T","H","L","Y">>
sMonthlyLow   == <<"m","o","n","t","h","l","y">>
sYEARLY       == <<"Y","E","A","R","L","Y">>
sPRO          == <<"P","R","O">>
sProLower     == <<"p","r","o">>
sProPadded    == <<" ","P","r","o"," ">>
sFREE         == <<"F","R","E","E">>
sFirst        == <<"f","i","r","s","t">>
sSecond       == <<"s","e","c","o","n","d">>

(***************************************************************************)
(* Subscriptions (models.Subscription with its SubscriptionPlan)           *)
(***************************************************************************)
MkSub(id, name, planName, planType, credits, limit, resets) ==
    [ID |-> id, SubscriptionName |-> name, PlanSubscriptionName |-> planName,
     PlanType |-> planType, CurrentCredits |-> credits, CreditLimit |-> limit,
     ResetTimes |-> resets]

(***************************************************************************)
(* internal/reset: eligibility filter                                      *)
(***************************************************************************)
\* isPAYGO with the name comparisons done case-sensitively
isPAYGO_CaseSensitive(sub) ==
    \/ sub.SubscriptionName = sPAYGO
    \/ sub.PlanSubscriptionName = sPAYGO
    \/ ToUpper(TrimSpace(sub.PlanType)) \in {sPAYGO, sPAY_PER_USE}

\* isPAYGO looking at the billing type only
isPAYGO_TypeOnly(sub) ==
    ToUpper(TrimSpace(sub.PlanType)) \in {sPAYGO, sPAY_PER_USE}

isPAYGO(sub) ==
    \/ EqualFold(sub.SubscriptionName, sPAYGO)
    \/ EqualFold(sub.PlanSubscriptionName, sPAYGO)
    \/ ToUpper(TrimSpace(sub.PlanType)) \in {sPAYGO, sPAY_PER_USE}

\* the normalized, non-empty target names of a policy
TargetNames(filter) ==
    { TrimSpace(ToLower(filter.TargetPlans[i])) : i \in 1..Len(filter.TargetPlans) }
        \ {sEmpty}

\* the monthly rule excluding every type that is not MONTHLY, the empty one too
ExcludedByMonthly_Strict(sub, filter) ==
    /\ filter.RequireMonthly
    /\ ToUpper(TrimSpace(sub.PlanType)) # sMONTHLY

\* the monthly rule: excluded when RequireMonthly and the type is known and not MONTHLY
ExcludedByMonthly(sub, filter) ==
    /\ filter.RequireMonthly
    /\ ToUpper(TrimSpace(sub.PlanType)) # sEmpty
    /\ ToUpper(TrimSpace(sub.PlanType)) # sMONTHLY

\* the allow-list rule
ExcludedByTargets(sub, filter) ==
    /\ TargetNames(filter) # {}
    /\ ToLower(TrimSpace(sub.SubscriptionName)) \notin TargetNames(filter)
    /\ ToLower(TrimSpace(sub.PlanSubscriptionName)) \notin TargetNames(filter)

KeepSub(sub, filter) ==
    /\ ~ExcludedByMonthly(sub, filter)
    /\ ~isPAYGO(sub)
    /\ ~ExcludedByTargets(sub, filter)

RECURSIVE FilterLoop(_, _)
FilterLoop(subs, filter) ==
    IF subs = <<>> THEN <<>>
    ELSE (IF KeepSub(Head(subs), filter) THEN <<Head(subs)>> ELSE <<>>)
             \o FilterLoop(Tail(subs), filter)

\* the filter losing the first subscription of its input
FilterSubscriptions_SkipFirst(subs, filter) ==
    IF subs = <<>> THEN <<>> ELSE FilterLoop(Tail(subs), filter)

FilterSubscriptions(subs, filter) == FilterLoop(subs, filter)

(***************************************************************************)
(* Bounds and input domains of the filter specification                    *)
(***************************************************************************)
MaxList == 2

FilterNames     == {sPRO, sPaygoLower, sPAYGO}
FilterPlanNames == {sPRO, sPaygoMixed}
FilterPlanTypes == {sMONTHLY, sEmpty, sPayPerUseLow, sPaygoPadded, sYEARLY}

FilterPolicies ==
    [TargetPlans : {<<>>, <<sProPadded>>, <<sPAYGO, sPaygoLower>>},
     RequireMonthly : BOOLEAN]

\* lists of length n whose k-th element carries ID k
SubLists(n) ==
    { [k \in 1..n |-> MkSub(k, f[k][1], f[k][2], f[k][3], 0, 0, 0)] :
        f \in [1..n -> FilterNames \X FilterPlanNames \X FilterPlanTypes] }


(***************************************************************************)
(* internal/reset: pre-flight checks of Runner.processSubscription         *)
(***************************************************************************)
\* percent > t and percent >= t for percent = credits / limit * 100, limit > 0
PercentGT(sub, t) == sub.CurrentCredits * 100 > t * sub.CreditLimit

PercentGE(sub, t) == sub.CurrentCredits * 100 >= t * sub.CreditLimit

\* shouldSkipByThreshold with the comparisons of the two modes exchanged
shouldSkipByThreshold_Swapped(sub, o) ==
    IF sub.CreditLimit <= 0 THEN FALSE
    ELSE \/ /\ o.UseMaxThreshold
            /\ o.CreditThresholdMax > 0
            /\ PercentGE(sub, o.CreditThresholdMax)
         \/ /\ ~o.UseMaxThreshold
            /\ o.CreditThresholdMin > 0
            /\ PercentGT(sub, o.CreditThresholdMin)

shouldSkipByThreshold(sub, o) ==
    IF sub.CreditLimit <= 0 THEN FALSE
    ELSE \/ /\ o.UseMaxThreshold
            /\ o.CreditThresholdMax > 0
            /\ PercentGT(sub, o.CreditThresholdMax)
         \/ /\ ~o.UseMaxThreshold
            /\ o.CreditThresholdMin > 0
            /\ PercentGE(sub, o.CreditThresholdMin)

minRequiredResetTimes(o) == IF EqualFold(o.ResetType, sSecond) THEN 1 ELSE 2

\* shouldSkipByResetTimes comparing with <= against one less than the minimum
shouldSkipByResetTimes_OffByOne(sub, o) == sub.ResetTimes < minRequiredResetTimes(o) - 1

shouldSkipByResetTimes(sub, o) == sub.ResetTimes < minRequiredResetTimes(o)

(***************************************************************************)
(* internal/api: the local pay-per-use check inside Client.ResetCredits    *)
(***************************************************************************)
ResetCreditsRejects(sub) ==
    \/ sub.SubscriptionName = sPAYGO
    \/ sub.PlanSubscriptionName = sPAYGO
    \/ sub.PlanType = sPAYGO
    \/ sub.PlanType = sPAY_PER_USE

(***************************************************************************)
(* Bounds and input domains of the executor specification                  *)
(***************************************************************************)
MaxCredits == 2
MaxResets  == 3

\* threshold percentages offered to the options (0 disables a mode)
ThresholdOn == 50

\* <<subscription name, plan name, billing type>>
ExecPlans ==
    { <<sPRO, sPRO, sMONTHLY>>,
      <<sFREE, sFREE, sEmpty>>,
      <<sPRO, sPRO, sPAY_PER_USE>>,
      <<sPRO, sPRO, sPayPerUseLow>>,
      <<sPaygoMixed, sPRO, sMONTHLY>> }

\* the plans of the executor specification, where no plan changes
StablePlans == { <<sPRO, sPRO, sMONTHLY>>, <<sPRO, sPRO, sPAY_PER_USE>> }

ExecLimits == {0, MaxCredits}

ExecSubs(id) ==
    { MkSub(id, p[1], p[2], p[3], c, l, r) :
        p \in ExecPlans, c \in 0..MaxCredits, l \in ExecLimits, r \in 0..MaxResets }

ExecOptions ==
    { [ResetType |-> t, UseMaxThreshold |-> m[1],
       CreditThresholdMax |-> m[2], CreditThresholdMin |-> m[3]] :
        t \in {sFirst, sSecond},
        m \in { <<TRUE, ThresholdOn, 0>>, <<FALSE, 0, ThresholdOn>>,
                <<TRUE, 0, ThresholdOn>>, <<FALSE, ThresholdOn, 0>> } }

\* options with the threshold check disabled
PlainOptions ==
    { [ResetType |-> t, UseMaxThreshold |-> TRUE,
       CreditThresholdMax |-> 0, CreditThresholdMin |-> 0] : t \in {sFirst, sSecond} }

ExecFilters ==
    { [TargetPlans |-> <<>>, RequireMonthly |-> TRUE],
      [TargetPlans |-> <<sProPadded>>, RequireMonthly |-> TRUE],
      [TargetPlans |-> <<>>, RequireMonthly |-> FALSE] }

NoSub == MkSub(0, sEmpty, sEmpty, sEmpty, 0, 0, 0)

NoErr == "nil"

NewResult(sub) ==
    [Subscription |-> sub, Acked |-> FALSE, Skipped |-> FALSE, SkipReason |-> "",
     Err |-> NoErr, BeforeCredits |-> 0, AfterCredits |-> 0,
     BeforeResets |-> 0, AfterResets |-> 0, Attempts |-> 0]

VARIABLES
    fSubs,      \* filter specification: the input list
    fFilter,    \* filter specification: the policy
    fOut,       \* filter specification: the output list
    fpc,        \* filter specification: "input" | "filtered"
    fAgain,     \* filter specification: <<the filter's output filtered again>>
    ledger,     \* remote ledger: the account's subscriptions, ID = position
    pending,    \* remote: id -> acknowledged resets whose effect is still to come
    opts,       \* Runner.opts
    filter,     \* Runner.filter
    pc,         \* position in Runner.Execute / processSubscription
    targets,    \* Execute: the filtered list
    idx,        \* Execute: index of the subscription being processed
    cache,      \* subscriptionFetcher.cache, as the list last fetched
    current,    \* processSubscription: current
    result,     \* processSubscription: result
    results,    \* Execute: results
    execErr,    \* Execute returned an error
    relist,     \* ResetCredits: what its own listing showed for the id
    sub0,       \* history: the snapshot the pre-flight checks saw
    hist,       \* history: one record per attempt on the current subscription
    effects,    \* history: id -> resets that took effect on the ledger in this run
    posts,      \* history: id -> reset requests sent in this run
    lastPost,   \* history: the listing entry seen before the latest request
    lockFile,   \* reset.lock in the data directory
    tmpFile,    \* reset.lock.tmp in the data directory
    now,        \* wall clock, in minutes
    proc,       \* caller -> the process (Storage instance) it runs in
    mu,         \* process -> the caller holding Storage.mu, 0 when free
    lpc,        \* caller -> position in AcquireLock / ReleaseLock
    lop,        \* caller -> operation name it asks the lock for
    startTime,  \* caller -> lock.StartTime of the lock it built
    mode,       \* trigger: "single" (Scheduler) | "multi" (MultiScheduler)
    statusFile, \* status.json of the account: <<>> when missing, else <<status>>
    tkind,      \* run -> trigger kind of the run
    tpc,        \* run -> position in executeReset / executeResetForAccount
    status,     \* run -> the *ExecutionStatus the run works on
    outcome,    \* run -> what runner.Execute returned
    src,        \* history: run -> the file content its load read
    loadAt,     \* history: run -> time of its load
    path,       \* history: run -> the exit path it took
    saved,      \* history: run -> <<>> or <<status>> as its save wrote it
    before,     \* history: run -> runs that had returned when it started
    eligible,   \* trigger: how many subscriptions of the account can be eligible
    upc,        \* fan-out: unit -> position in the goroutine
    unitOK,     \* fan-out: unit -> result of executeResetForAccount
    successCount, \* fan-out: executeResetForAllAccounts: successCount
    failCount,  \* fan-out: executeResetForAllAccounts: failCount
    cmu,        \* fan-out: holder of the counters' mutex, 0 when free
    reg,        \* fan-out: unit -> the counter value it read
    wg,         \* fan-out: the WaitGroup counter
    cpc,        \* fan-out: position of the coordinator
    reported,   \* fan-out: <<>> or <<successCount, failCount>> as logged
    clock,      \* loop: wall clock of the loop, in minutes
    lastSubscriptionSlot, \* loopController.lastSubscriptionSlot
    loopPc,     \* loop: "new" | "ticking" | "stopped"
    refreshes,  \* history: times of the subscriptionCheck calls
    checks,     \* history: number of resetCheck calls
    ctxDone,    \* loopController.ctx is cancelled
    tickReady,  \* the ticker's channel holds a tick
    rpc,        \* position of loopController.run
    stops,      \* number of Stop calls so far
    logBuffer,  \* len(logAgg.buffer)
    ticks,      \* number of ticks the ticker has sent
    entered,    \* history: tick handlers begun
    handled,    \* history: tick handlers that ran to their end
    lateStarts, \* history: tick handlers begun after a Stop call
    stoppedIn,  \* history: the positions of run at which Stop was called
    files,      \* save: path -> content of the file in the data directory
    spc,        \* save: position of saveJSON
    dest,       \* save: the file being saved
    saves,      \* save: number of saves begun; the version of the data saved
    prevTarget, \* history: the target's content when the save began
    crashes,    \* save: number of crashes so far
    mpc,        \* manual mode: position in runManualMode
    mLedger,    \* manual mode: the target subscription on the service
    mLate,      \* manual mode: an acknowledged reset has yet to take effect
    mCfg,       \* manual mode: the configured thresholds
    mSub,       \* runManualMode: targetSub
    mPosts,     \* history: reset requests sent
    mNote,      \* history: how the run went
    mAfter,     \* runManualMode: <<targetSubAfter>> when it was fetched
    mStatusFile, \* manual mode: status.json of the account
    mLock,      \* manual mode: another run holds a fresh lock
    stpc,       \* start-up: position in main / runSchedulerMode
    sCfg,       \* start-up: the settings of flags, environment and .env
    sThresholds, \* main: <<thresholdMax, thresholdMin, useMax>> once resolved
    sRefreshes, \* history: inventory refreshes
    sChecks,    \* history: trigger checks
    qpc,        \* matching specification: "input"
    qSub,       \* matching specification: the subscription
    qPolicy,    \* matching specification: target names and RequireMonthly
    qKept,      \* <<FilterSubscriptions kept it>> once applied
    qMatch,     \* <<matchesTargetPlan's result>> once applied
    apc,        \* application: position in App.Run
    aMode,      \* application: a.Config.Mode
    aKeys,      \* application: len(a.Config.APIKeys)
    aPath,      \* history: the mode handler Run entered
    aSched,     \* history: the scheduler that was started
    aActive,    \* runMultiAccountMode: activeAccounts
    aAccounts,  \* history: the accounts the multi-account scheduler was started over
    aErr,       \* application: Run returned an error
    aResets,    \* history: reset calls made
    dMode,      \* "single" (Scheduler) or "multi" (MultiScheduler, one account)
    dEnableFirst,\* enableFirstReset
    dClock,     \* the time, in slices of a minute since midnight
    dNextTick,  \* when the ticker fires next; 0 before it is created
    dPc,        \* where loopController.run is
    dTick,      \* <<t>>: the tick being handled fired at t; <<>>: the initial check
    dLastSlot,  \* lastSubscriptionSlot, in minutes
    dStatusFile,\* the status file of the account
    dStatus,    \* the status loaded by the run in progress
    dKind,      \* the trigger of the run in progress
    dLocks,     \* AcquireLock calls so far
    dRemote,    \* calls to the remote service so far
    dLog        \* the trigger checks at or around a mark

filterVars == <<fSubs, fFilter, fOut, fpc, fAgain>>

execVars == <<ledger, pending, opts, filter, pc, targets, idx, cache, current,
              result, results, execErr, relist, sub0, hist, effects, posts, lastPost>>

lockVars == <<lockFile, tmpFile, now, proc, mu, lpc, lop, startTime>>

trigVars == <<mode, statusFile, tkind, tpc, status, outcome, src, loadAt,
              path, saved, before, eligible>>

fanVars == <<upc, unitOK, successCount, failCount, cmu, reg, wg, cpc, reported>>

loopVars == <<clock, lastSubscriptionSlot, loopPc, refreshes, checks>>

schedVars == <<trigVars, fanVars, loopVars>>

stopVars == <<ctxDone, tickReady, rpc, stops, logBuffer, ticks, entered, handled, lateStarts,
              stoppedIn>>

saveVars == <<files, spc, dest, saves, prevTarget, crashes>>

manVars == <<mpc, mLedger, mLate, mCfg, mSub, mPosts, mNote, mAfter, mStatusFile, mLock>>

startVars == <<stpc, sCfg, sThresholds, sRefreshes, sChecks>>

matchVars == <<qpc, qSub, qPolicy, qKept, qMatch>>

appVars == <<apc, aMode, aKeys, aPath, aSched, aActive, aAccounts, aErr, aResets>>

dayVars == <<dMode, dEnableFirst, dClock, dNextTick, dPc, dTick, dLastSlot, dStatusFile, dStatus, dKind, dLocks, dRemote, dLog>>

extVars == <<stopVars, saveVars, manVars, startVars, matchVars, appVars, dayVars>>

\* what the actions of the stop and of the save specification leave alone
stopFrame == <<filterVars, execVars, lockVars, schedVars, saveVars, manVars, startVars, matchVars, appVars, dayVars>>

saveFrame == <<filterVars, execVars, lockVars, schedVars, stopVars, manVars, startVars, matchVars, appVars, dayVars>>

manFrame == <<filterVars, execVars, lockVars, schedVars, stopVars, saveVars, startVars, matchVars, appVars, dayVars>>

startFrame == <<filterVars, execVars, lockVars, schedVars, stopVars, saveVars, manVars, matchVars, appVars, dayVars>>

matchFrame == <<filterVars, execVars, lockVars, schedVars, stopVars, saveVars, manVars, startVars, appVars, dayVars>>

appFrame == <<filterVars, execVars, lockVars, schedVars, stopVars, saveVars, manVars, startVars, matchVars, dayVars>>

dayFrame == <<filterVars, execVars, lockVars, schedVars, stopVars, saveVars, manVars, startVars, matchVars, appVars>>

vars == <<filterVars, execVars, lockVars, schedVars, extVars>>

(***************************************************************************)
(* Specification of the filter as a function of its inputs                 *)
(***************************************************************************)
FilterIdle ==
    /\ fSubs = <<>>
    /\ fFilter = [TargetPlans |-> <<>>, RequireMonthly |-> TRUE]
    /\ fOut = <<>>
    /\ fpc = "off"
    /\ fAgain = <<>>

FilterInit ==
    /\ fSubs \in UNION { SubLists(n) : n \in 0..MaxList }
    /\ fFilter \in FilterPolicies
    /\ fOut = <<>>
    /\ fpc = "input"
    /\ fAgain = <<>>

ApplyFilter ==
    /\ fpc = "input"
    /\ fOut' = FilterSubscriptions(fSubs, fFilter)
    /\ fpc' = "filtered"
    /\ UNCHANGED <<fSubs, fFilter, fAgain>>
    /\ UNCHANGED <<execVars, lockVars, schedVars, extVars>>

\* the output is given to FilterSubscriptions once more, with the same policy
ReapplyFilter ==
    /\ fpc = "filtered"
    /\ fAgain = <<>>
    /\ fAgain' = <<FilterSubscriptions(fOut, fFilter)>>
    /\ UNCHANGED <<fSubs, fFilter, fOut, fpc>>
    /\ UNCHANGED <<execVars, lockVars, schedVars, extVars>>

FilterNext ==
    \/ ApplyFilter
    \/ ReapplyFilter

(***************************************************************************)
(* Remote billing service (environment of the executor)                    *)
(***************************************************************************)
\* a reset that takes effect: one count consumed, credits back at the limit
ResetEffect(s) ==
    [s EXCEPT !.ResetTimes = s.ResetTimes - 1,
              !.CurrentCredits = IF s.CreditLimit > s.CurrentCredits
                                 THEN s.CreditLimit ELSE s.CurrentCredits]

\* credits are used up between two calls
EnvUsage ==
    /\ pc \in {"attempt", "verify"}
    /\ \E id \in 1..Len(ledger), c \in 0..MaxCredits :
        /\ c < ledger[id].CurrentCredits
        /\ ledger' = [ledger EXCEPT ![id].CurrentCredits = c]
    /\ UNCHANGED <<pending, opts, filter, pc, targets, idx, cache, current, result,
                   results, execErr, relist, sub0, hist, effects, posts, lastPost>>
    /\ UNCHANGED <<filterVars, lockVars, schedVars, extVars>>

\* the plan of a subscription changes between listing and acting
EnvPlanChange ==
    /\ pc = "attempt"
    /\ \E id \in 1..Len(ledger), p \in ExecPlans :
        /\ <<ledger[id].SubscriptionName, ledger[id].PlanSubscriptionName,
             ledger[id].PlanType>> # p
        /\ ledger' = [ledger EXCEPT ![id].SubscriptionName = p[1],
                                    ![id].PlanSubscriptionName = p[2],
                                    ![id].PlanType = p[3]]
    /\ UNCHANGED <<pending, opts, filter, pc, targets, idx, cache, current, result,
                   results, execErr, relist, sub0, hist, effects, posts, lastPost>>
    /\ UNCHANGED <<filterVars, lockVars, schedVars, extVars>>

\* an acknowledged reset reaches the ledger after the acknowledgement
EnvLateApply ==
    /\ pc \in {"attempt", "loop"}
    /\ \E id \in 1..Len(ledger) :
        /\ pending[id] > 0
        /\ ledger[id].ResetTimes >= 1
        /\ pending' = [pending EXCEPT ![id] = @ - 1]
        /\ ledger' = [ledger EXCEPT ![id] = ResetEffect(@)]
        /\ effects' = [effects EXCEPT ![id] = @ + 1]
    /\ UNCHANGED <<opts, filter, pc, targets, idx, cache, current, result,
                   results, execErr, relist, sub0, hist, posts, lastPost>>
    /\ UNCHANGED <<filterVars, lockVars, schedVars, extVars>>

(***************************************************************************)
(* internal/reset: Runner.Execute and Runner.processSubscription           *)
(***************************************************************************)
HasID(list, id) == \E i \in 1..Len(list) : list[i].ID = id

\* the map built from a listing: a later entry of the same ID wins
ByID(list, id) ==
    list[CHOOSE i \in 1..Len(list) :
            /\ list[i].ID = id
            /\ \A j \in (i + 1)..Len(list) : list[j].ID # id]

NoRelist == [status |-> "none", sub |-> NoSub]

NewAttempt(cur) ==
    [bc |-> cur.CurrentCredits, br |-> cur.ResetTimes, relist |-> "none",
     call |-> "none", eff |-> "none", fetch |-> "none", fc |-> 0, fr |-> 0]

\* the record of the attempt in progress
LastAttempt == hist[Len(hist)]

SetLast(h, field, value) == [h EXCEPT ![Len(h)][field] = value]

\* Execute giving up on the remaining subscriptions after a failed one
Finalize_StopOnError(r) ==
    /\ result' = r
    /\ results' = Append(results, r)
    /\ idx' = IF r.Err # NoErr THEN Len(targets) + 1 ELSE idx + 1
    /\ pc' = "loop"

\* processSubscription returns r: Execute appends it and moves on
Finalize(r) ==
    /\ result' = r
    /\ results' = Append(results, r)
    /\ idx' = idx + 1
    /\ pc' = "loop"

\* Execute: list, filter, build the fetcher
ExecuteStart ==
    /\ pc = "start"
    /\ \/ /\ execErr' = TRUE
          /\ pc' = "done"
          /\ UNCHANGED <<targets, cache>>
       \/ /\ targets' = FilterSubscriptions(ledger, filter)
          /\ cache' = ledger
          /\ pc' = "loop"
          /\ UNCHANGED execErr
    /\ UNCHANGED <<ledger, pending, opts, filter, idx, current, result, results,
                   relist, sub0, hist, effects, posts, lastPost>>
    /\ UNCHANGED <<filterVars, lockVars, schedVars, extVars>>

\* Execute: all targets processed
ExecuteReturn ==
    /\ pc = "loop"
    /\ idx > Len(targets)
    /\ pc' = "done"
    /\ UNCHANGED <<ledger, pending, opts, filter, targets, idx, cache, current,
                   result, results, execErr, relist, sub0, hist, effects, posts,
                   lastPost>>
    /\ UNCHANGED <<filterVars, lockVars, schedVars, extVars>>

\* processSubscription up to the retry loop: snapshot and pre-flight checks
BeginSubscription ==
    /\ pc = "loop"
    /\ idx <= Len(targets)
    /\ LET t   == targets[idx]
           sub == IF HasID(cache, t.ID) THEN ByID(cache, t.ID) ELSE t
           r   == [NewResult(sub) EXCEPT !.BeforeCredits = sub.CurrentCredits,
                                         !.BeforeResets = sub.ResetTimes]
       IN  /\ sub0' = sub
           /\ hist' = <<>>
           /\ relist' = NoRelist
           /\ IF shouldSkipByThreshold(sub, opts)
              THEN /\ Finalize([r EXCEPT !.Skipped = TRUE, !.SkipReason = "threshold"])
                   /\ UNCHANGED current
              ELSE IF shouldSkipByResetTimes(sub, opts)
              THEN /\ Finalize([r EXCEPT !.Skipped = TRUE, !.SkipReason = "resetTimes"])
                   /\ UNCHANGED current
              ELSE /\ current' = sub
                   /\ result' = r
                   /\ pc' = "attempt"
                   /\ UNCHANGED <<results, idx>>
    /\ UNCHANGED <<ledger, pending, opts, filter, targets, cache, execErr, effects,
                   posts, lastPost>>
    /\ UNCHANGED <<filterVars, lockVars, schedVars, extVars>>

\* one attempt begins; ResetCredits lists again and checks the target locally
AttemptCall ==
    /\ pc = "attempt"
    /\ LET r == [result EXCEPT !.Attempts = @ + 1]
           h == Append(hist, NewAttempt(current))
       IN  \/ \* the listing fails: "cannot verify, reset anyway"
              /\ relist' = [status |-> "err", sub |-> NoSub]
              /\ hist' = SetLast(h, "relist", "err")
              /\ result' = r
              /\ pc' = "post"
              /\ UNCHANGED <<results, idx>>
           \/ /\ HasID(ledger, current.ID)
              /\ LET s == ByID(ledger, current.ID)
                 IN  IF ResetCreditsRejects(s)
                     THEN /\ relist' = [status |-> "ok", sub |-> s]
                          /\ hist' = SetLast(SetLast(h, "relist", "ok"), "call", "rejected")
                          /\ Finalize([r EXCEPT !.Err = "rejected"])
                     ELSE /\ relist' = [status |-> "ok", sub |-> s]
                          /\ hist' = SetLast(h, "relist", "ok")
                          /\ result' = r
                          /\ pc' = "post"
                          /\ UNCHANGED <<results, idx>>
    /\ UNCHANGED <<ledger, pending, opts, filter, targets, cache, current, execErr,
                   sub0, effects, posts, lastPost>>
    /\ UNCHANGED <<filterVars, lockVars, schedVars, extVars>>

\* ResetCredits sends the request; the remote answers
AttemptPost ==
    /\ pc = "post"
    /\ posts' = [posts EXCEPT ![current.ID] = @ + 1]
    /\ lastPost' = relist
    /\ \/ \* transport error or a refusal of the remote
          /\ hist' = SetLast(hist, "call", "err")
          /\ Finalize([result EXCEPT !.Err = "reset"])
          /\ UNCHANGED <<ledger, pending, effects>>
       \/ \* acknowledged, and the ledger changes at once
          /\ ledger[current.ID].ResetTimes >= 1
          /\ ledger' = [ledger EXCEPT ![current.ID] = ResetEffect(@)]
          /\ effects' = [effects EXCEPT ![current.ID] = @ + 1]
          /\ hist' = SetLast(SetLast(hist, "call", "ack"), "eff", "now")
          /\ result' = [result EXCEPT !.Acked = TRUE]
          /\ pc' = "verify"
          /\ UNCHANGED <<pending, results, idx>>
       \/ \* acknowledged, and the ledger never changes
          /\ hist' = SetLast(SetLast(hist, "call", "ack"), "eff", "never")
          /\ result' = [result EXCEPT !.Acked = TRUE]
          /\ pc' = "verify"
          /\ UNCHANGED <<ledger, pending, effects, results, idx>>
       \/ \* acknowledged, and the ledger changes later
          /\ pending' = [pending EXCEPT ![current.ID] = @ + 1]
          /\ hist' = SetLast(SetLast(hist, "call", "ack"), "eff", "later")
          /\ result' = [result EXCEPT !.Acked = TRUE]
          /\ pc' = "verify"
          /\ UNCHANGED <<ledger, effects, results, idx>>
    /\ UNCHANGED <<opts, filter, targets, cache, current, execErr, relist, sub0>>
    /\ UNCHANGED <<filterVars, lockVars, schedVars, extVars>>

\* Verify accepting either sign of a reset instead of both
Verify_Either(r, updated, attempts) ==
    LET ra == [r EXCEPT !.AfterCredits = updated.CurrentCredits,
                        !.AfterResets = updated.ResetTimes]
        creditsIncreased == ra.AfterCredits > ra.BeforeCredits
        resetsReduced    == ra.AfterResets < ra.BeforeResets
        stillEligible    == ra.AfterResets >= minRequiredResetTimes(opts)
    IN  IF creditsIncreased \/ resetsReduced THEN [next |-> "return", r |-> ra]
        ELSE IF ~stillEligible THEN [next |-> "return", r |-> [ra EXCEPT !.Err = "ineligible"]]
        ELSE IF attempts = 1
        THEN [next |-> "retry",
              r |-> [ra EXCEPT !.BeforeCredits = updated.CurrentCredits,
                               !.BeforeResets = updated.ResetTimes]]
        ELSE [next |-> "return", r |-> [ra EXCEPT !.Err = "unconfirmed"]]

\* Verify retrying without adopting the fetched state as the new baseline
Verify_KeepBaseline(r, updated, attempts) ==
    LET ra == [r EXCEPT !.AfterCredits = updated.CurrentCredits,
                        !.AfterResets = updated.ResetTimes]
        creditsIncreased == ra.AfterCredits > ra.BeforeCredits
        resetsReduced    == ra.AfterResets < ra.BeforeResets
        stillEligible    == ra.AfterResets >= minRequiredResetTimes(opts)
    IN  IF creditsIncreased /\ resetsReduced THEN [next |-> "return", r |-> ra]
        ELSE IF ~stillEligible THEN [next |-> "return", r |-> [ra EXCEPT !.Err = "ineligible"]]
        ELSE IF attempts = 1 THEN [next |-> "retry", r |-> ra]
        ELSE [next |-> "return", r |-> [ra EXCEPT !.Err = "unconfirmed"]]

\* Verify retrying on attempt 1 without the eligibility check
Verify_RetryIneligible(r, updated, attempts) ==
    LET ra == [r EXCEPT !.AfterCredits = updated.CurrentCredits,
                        !.AfterResets = updated.ResetTimes]
        creditsIncreased == ra.AfterCredits > ra.BeforeCredits
        resetsReduced    == ra.AfterResets < ra.BeforeResets
        stillEligible    == ra.AfterResets >= minRequiredResetTimes(opts)
    IN  IF creditsIncreased /\ resetsReduced THEN [next |-> "return", r |-> ra]
        ELSE IF attempts = 1
        THEN [next |-> "retry",
              r |-> [ra EXCEPT !.BeforeCredits = updated.CurrentCredits,
                               !.BeforeResets = updated.ResetTimes]]
        ELSE IF ~stillEligible THEN [next |-> "return", r |-> [ra EXCEPT !.Err = "ineligible"]]
        ELSE [next |-> "return", r |-> [ra EXCEPT !.Err = "unconfirmed"]]

\* Verify taking one remaining reset as enough for every trigger
Verify_MinimumOne(r, updated, attempts) ==
    LET ra == [r EXCEPT !.AfterCredits = updated.CurrentCredits,
                        !.AfterResets = updated.ResetTimes]
        creditsIncreased == ra.AfterCredits > ra.BeforeCredits
        resetsReduced    == ra.AfterResets < ra.BeforeResets
        stillEligible    == ra.AfterResets >= 1
    IN  IF creditsIncreased /\ resetsReduced THEN [next |-> "return", r |-> ra]
        ELSE IF ~stillEligible THEN [next |-> "return", r |-> [ra EXCEPT !.Err = "ineligible"]]
        ELSE IF attempts = 1
        THEN [next |-> "retry",
              r |-> [ra EXCEPT !.BeforeCredits = updated.CurrentCredits,
                               !.BeforeResets = updated.ResetTimes]]
        ELSE [next |-> "return", r |-> [ra EXCEPT !.Err = "unconfirmed"]]

\* Verify allowing a third attempt
Verify_ThreeAttempts(r, updated, attempts) ==
    LET ra == [r EXCEPT !.AfterCredits = updated.CurrentCredits,
                        !.AfterResets = updated.ResetTimes]
        creditsIncreased == ra.AfterCredits > ra.BeforeCredits
        resetsReduced    == ra.AfterResets < ra.BeforeResets
        stillEligible    == ra.AfterResets >= minRequiredResetTimes(opts)
    IN  IF creditsIncreased /\ resetsReduced THEN [next |-> "return", r |-> ra]
        ELSE IF ~stillEligible THEN [next |-> "return", r |-> [ra EXCEPT !.Err = "ineligible"]]
        ELSE IF attempts <= 2
        THEN [next |-> "retry",
              r |-> [ra EXCEPT !.BeforeCredits = updated.CurrentCredits,
                               !.BeforeResets = updated.ResetTimes]]
        ELSE [next |-> "return", r |-> [ra EXCEPT !.Err = "unconfirmed"]]

\* the decision of one attempt, given the subscription fetched after the settle delay
Verify(r, updated, attempts) ==
    LET ra == [r EXCEPT !.AfterCredits = updated.CurrentCredits,
                        !.AfterResets = updated.ResetTimes]
        creditsIncreased == ra.AfterCredits > ra.BeforeCredits
        resetsReduced    == ra.AfterResets < ra.BeforeResets
        stillEligible    == ra.AfterResets >= minRequiredResetTimes(opts)
    IN  IF creditsIncreased /\ resetsReduced THEN [next |-> "return", r |-> ra]
        ELSE IF ~stillEligible THEN [next |-> "return", r |-> [ra EXCEPT !.Err = "ineligible"]]
        ELSE IF attempts = 1
        THEN [next |-> "retry",
              r |-> [ra EXCEPT !.BeforeCredits = updated.CurrentCredits,
                               !.BeforeResets = updated.ResetTimes]]
        ELSE [next |-> "return", r |-> [ra EXCEPT !.Err = "unconfirmed"]]

\* after the settle delay: fetch again and verify
AttemptVerify ==
    /\ pc = "verify"
    /\ \/ \* the listing fails
          /\ hist' = SetLast(hist, "fetch", "err")
          /\ Finalize([result EXCEPT !.Err = "verify"])
          /\ UNCHANGED <<cache, current>>
       \/ /\ HasID(ledger, current.ID)
          /\ cache' = ledger
          /\ LET updated == ByID(ledger, current.ID)
                 v == Verify(result, updated, result.Attempts)
             IN  /\ hist' = [hist EXCEPT ![Len(hist)].fetch = "ok",
                                         ![Len(hist)].fc = updated.CurrentCredits,
                                         ![Len(hist)].fr = updated.ResetTimes]
                 /\ IF v.next = "retry"
                    THEN /\ result' = v.r
                         /\ current' = updated
                         /\ pc' = "attempt"
                         /\ UNCHANGED <<results, idx>>
                    ELSE /\ Finalize(v.r)
                         /\ UNCHANGED current
    /\ UNCHANGED <<ledger, pending, opts, filter, targets, execErr, relist, sub0,
                   effects, posts, lastPost>>
    /\ UNCHANGED <<filterVars, lockVars, schedVars, extVars>>

ExecIdle ==
    /\ ledger = <<>>
    /\ pending = <<>>
    /\ opts = [ResetType |-> sFirst, UseMaxThreshold |-> TRUE,
               CreditThresholdMax |-> 0, CreditThresholdMin |-> 0]
    /\ filter = [TargetPlans |-> <<>>, RequireMonthly |-> TRUE]
    /\ pc = "off"
    /\ targets = <<>>
    /\ idx = 1
    /\ cache = <<>>
    /\ current = NoSub
    /\ result = NewResult(NoSub)
    /\ results = <<>>
    /\ execErr = FALSE
    /\ relist = NoRelist
    /\ sub0 = NoSub
    /\ hist = <<>>
    /\ effects = <<>>
    /\ posts = <<>>
    /\ lastPost = NoRelist

\* the state before Execute is called, for a given ledger and configuration
ExecStartState(l, o, f) ==
    /\ ledger = l
    /\ pending = [i \in 1..Len(l) |-> 0]
    /\ opts = o
    /\ filter = f
    /\ pc = "start"
    /\ targets = <<>>
    /\ idx = 1
    /\ cache = <<>>
    /\ current = NoSub
    /\ result = NewResult(NoSub)
    /\ results = <<>>
    /\ execErr = FALSE
    /\ relist = NoRelist
    /\ sub0 = NoSub
    /\ hist = <<>>
    /\ effects = [i \in 1..Len(l) |-> 0]
    /\ posts = [i \in 1..Len(l) |-> 0]
    /\ lastPost = NoRelist

\* one subscription, every balance and reset count, plan fixed during the run
ExecInit ==
    \E s \in ExecSubs(1), o \in ExecOptions :
        /\ <<s.SubscriptionName, s.PlanSubscriptionName, s.PlanType>> \in StablePlans
        /\ ExecStartState(<<s>>, o, [TargetPlans |-> <<>>, RequireMonthly |-> TRUE])

ExecNext ==
    \/ ExecuteStart
    \/ BeginSubscription
    \/ AttemptCall
    \/ AttemptPost
    \/ AttemptVerify
    \/ ExecuteReturn
    \/ EnvUsage
    \/ EnvLateApply

\* as ExecInit, with the threshold of the configured mode set
FairInit ==
    \E s \in ExecSubs(1), o \in ExecOptions :
        /\ <<s.SubscriptionName, s.PlanSubscriptionName, s.PlanType>> \in StablePlans
        /\ (o.UseMaxThreshold <=> o.CreditThresholdMax > 0)
        /\ ExecStartState(<<s>>, o, [TargetPlans |-> <<>>, RequireMonthly |-> TRUE])

\* an account with two subscriptions, eligible or not, resets left or not
BatchSubs(id) ==
    { MkSub(id, p[1], p[2], p[3], 0, MaxCredits, r) :
        p \in StablePlans, r \in {0, MaxResets} }

BatchInit ==
    \E s1 \in BatchSubs(1), s2 \in BatchSubs(2), o \in PlainOptions :
        ExecStartState(<<s1, s2>>, o, [TargetPlans |-> <<>>, RequireMonthly |-> TRUE])

BatchNext ==
    \/ ExecuteStart
    \/ BeginSubscription
    \/ AttemptCall
    \/ AttemptPost
    \/ AttemptVerify
    \/ ExecuteReturn
    \/ EnvLateApply

\* the steps of the runner itself: sequential code whose calls all return
RunnerNext ==
    \/ ExecuteStart
    \/ BeginSubscription
    \/ AttemptCall
    \/ AttemptPost
    \/ AttemptVerify
    \/ ExecuteReturn

\* one subscription of every plan, whose plan may change during the run
PlanInit ==
    \E p \in ExecPlans, r \in 0..MaxResets, o \in PlainOptions, f \in ExecFilters :
        ExecStartState(<<MkSub(1, p[1], p[2], p[3], 0, MaxCredits, r)>>, o, f)

PlanNext ==
    \/ ExecuteStart
    \/ BeginSubscription
    \/ AttemptCall
    \/ AttemptPost
    \/ AttemptVerify
    \/ ExecuteReturn
    \/ EnvPlanChange

(***************************************************************************)
(* internal/storage: the run lock (reset.lock)                             *)
(***************************************************************************)
\* a lock older than this many minutes is a zombie lock
StaleMinutes == 10

\* bounds of the lock specification
NumCallers  == 2
TickMinutes == 5
MaxClock    == 15

Callers == 1..NumCallers
Procs   == 1..NumCallers

Operations == {"first_reset", "second_reset", "manual_reset"}

NoFile == [exists |-> FALSE, pid |-> 0, start |-> 0, op |-> ""]

\* a lock left behind by a process that is gone
ZombieLock == [exists |-> TRUE, pid |-> 0, start |-> 0, op |-> "first_reset"]

\* time.Since(existingLock.StartTime) < 10*time.Minute
LockIsFresh(lock, t) == t - lock.start < StaleMinutes

\* the deferred s.mu.Unlock() of the caller's process
Unlock(c) == mu' = [mu EXCEPT ![proc[c]] = 0]

\* AcquireLock: s.mu.Lock()
AcquireEnter(c) ==
    /\ lpc[c] = "idle"
    /\ mu[proc[c]] = 0
    /\ mu' = [mu EXCEPT ![proc[c]] = c]
    /\ lpc' = [lpc EXCEPT ![c] = "stat"]
    /\ UNCHANGED <<lockFile, tmpFile, now, proc, lop, startTime>>
    /\ UNCHANGED <<filterVars, execVars, schedVars, extVars>>

\* AcquireLock: os.Stat(lockPath)
AcquireStat(c) ==
    /\ lpc[c] = "stat"
    /\ lpc' = [lpc EXCEPT ![c] = IF lockFile.exists THEN "load" ELSE "write"]
    /\ UNCHANGED <<lockFile, tmpFile, now, proc, mu, lop, startTime>>
    /\ UNCHANGED <<filterVars, execVars, schedVars, extVars>>

\* AcquireLock: read the existing lock and check its age
AcquireLoad(c) ==
    /\ lpc[c] = "load"
    /\ IF lockFile.exists /\ LockIsFresh(lockFile, now)
       THEN /\ lpc' = [lpc EXCEPT ![c] = "failed"]
            /\ Unlock(c)
       ELSE /\ lpc' = [lpc EXCEPT ![c] = "write"]
            /\ UNCHANGED mu
    /\ UNCHANGED <<lockFile, tmpFile, now, proc, lop, startTime>>
    /\ UNCHANGED <<filterVars, execVars, schedVars, extVars>>

\* saveJSON: os.WriteFile(tempFile, ...)
AcquireWriteTemp(c) ==
    /\ lpc[c] = "write"
    /\ startTime' = [startTime EXCEPT ![c] = now]
    /\ tmpFile' = [exists |-> TRUE, pid |-> c, start |-> now, op |-> lop[c]]
    /\ lpc' = [lpc EXCEPT ![c] = "rename"]
    /\ UNCHANGED <<lockFile, now, proc, mu, lop>>
    /\ UNCHANGED <<filterVars, execVars, schedVars, extVars>>

\* saveJSON: os.Rename(tempFile, filePath), then AcquireLock returns
AcquireRename(c) ==
    /\ lpc[c] = "rename"
    /\ IF tmpFile.exists
       THEN /\ lockFile' = tmpFile
            /\ tmpFile' = NoFile
            /\ lpc' = [lpc EXCEPT ![c] = "held"]
       ELSE /\ lpc' = [lpc EXCEPT ![c] = "failed"]
            /\ UNCHANGED <<lockFile, tmpFile>>
    /\ Unlock(c)
    /\ UNCHANGED <<now, proc, lop, startTime>>
    /\ UNCHANGED <<filterVars, execVars, schedVars, extVars>>

\* ReleaseLock: s.mu.Lock(), os.Remove(lockPath)
ReleaseLock(c) ==
    /\ lpc[c] = "held"
    /\ mu[proc[c]] = 0
    /\ lockFile' = NoFile
    /\ lpc' = [lpc EXCEPT ![c] = "released"]
    /\ UNCHANGED <<tmpFile, now, proc, mu, lop, startTime>>
    /\ UNCHANGED <<filterVars, execVars, schedVars, extVars>>

\* time passes
Tick ==
    /\ now + TickMinutes <= MaxClock
    /\ now' = now + TickMinutes
    /\ UNCHANGED <<lockFile, tmpFile, proc, mu, lpc, lop, startTime>>
    /\ UNCHANGED <<filterVars, execVars, schedVars, extVars>>

LockIdle ==
    /\ lockFile = NoFile
    /\ tmpFile = NoFile
    /\ now = 0
    /\ proc = <<>>
    /\ mu = <<>>
    /\ lpc = <<>>
    /\ lop = <<>>
    /\ startTime = <<>>

LockInit ==
    /\ lockFile \in {NoFile, ZombieLock}
    /\ tmpFile = NoFile
    /\ now = 0
    /\ proc \in [Callers -> Procs]
    /\ mu = [p \in Procs |-> 0]
    /\ lpc = [c \in Callers |-> "idle"]
    /\ lop \in [Callers -> Operations]
    /\ startTime = [c \in Callers |-> 0]

\* the first caller's run holds the lock it took at time 0 and goes on
\* running; the others have yet to call AcquireLock
ReclaimInit ==
    /\ proc \in [Callers -> Procs]
    /\ lop \in [Callers -> Operations]
    /\ lockFile = [exists |-> TRUE, pid |-> 1, start |-> 0, op |-> lop[1]]
    /\ tmpFile = NoFile
    /\ now = 0
    /\ mu = [p \in Procs |-> 0]
    /\ lpc = [c \in Callers |-> IF c = 1 THEN "held" ELSE "idle"]
    /\ startTime = [c \in Callers |-> 0]

LockNext ==
    \/ \E c \in Callers : AcquireEnter(c)
    \/ \E c \in Callers : AcquireStat(c)
    \/ \E c \in Callers : AcquireLoad(c)
    \/ \E c \in Callers : AcquireWriteTemp(c)
    \/ \E c \in Callers : AcquireRename(c)
    \/ \E c \in Callers : ReleaseLock(c)
    \/ Tick

(***************************************************************************)
(* internal/storage: ExecutionStatus (status.json)                         *)
(***************************************************************************)
\* minutes of a calendar day; time.Now().Format("2006-01-02") names the day
DayMinutes == 1440

\* the calendar date of an instant
Today(t) == t \div DayMinutes

\* a nil *time.Time is <<>>, a set one is <<t>>
NoTimestamp == <<>>

NoMessage == <<>>

initializeStatus(t) ==
    [LastCheckTime |-> t,
     LastFirstResetTime |-> NoTimestamp,
     LastSecondResetTime |-> NoTimestamp,
     FirstResetToday |-> FALSE,
     SecondResetToday |-> FALSE,
     LastResetSuccess |-> FALSE,
     LastResetMessage |-> NoMessage,
     ConsecutiveFailures |-> 0,
     TodayDate |-> Today(t),
     ResetTimesBeforeReset |-> 0,
     ResetTimesAfterReset |-> 0,
     CreditsBeforeReset |-> 0,
     CreditsAfterReset |-> 0]

\* LoadStatus with the failure counter among the fields cleared on a new day
LoadStatus_ClearsFailures(file, t) ==
    IF file = <<>> THEN initializeStatus(t)
    ELSE IF file[1].TodayDate # Today(t)
    THEN [file[1] EXCEPT !.TodayDate = Today(t),
                         !.FirstResetToday = FALSE,
                         !.SecondResetToday = FALSE,
                         !.ResetTimesBeforeReset = 0,
                         !.ResetTimesAfterReset = 0,
                         !.CreditsBeforeReset = 0,
                         !.CreditsAfterReset = 0,
                         !.ConsecutiveFailures = 0]
    ELSE file[1]

\* LoadStatus / LoadStatusByEmail, the file read without error
LoadStatus(file, t) ==
    IF file = <<>> THEN initializeStatus(t)
    ELSE IF file[1].TodayDate # Today(t)
    THEN [file[1] EXCEPT !.TodayDate = Today(t),
                         !.FirstResetToday = FALSE,
                         !.SecondResetToday = FALSE,
                         !.ResetTimesBeforeReset = 0,
                         !.ResetTimesAfterReset = 0,
                         !.CreditsBeforeReset = 0,
                         !.CreditsAfterReset = 0]
    ELSE file[1]

\* SaveStatus / SaveStatusByEmail: what is written
StampStatus(st, t) == [st EXCEPT !.LastCheckTime = t]

(***************************************************************************)
(* internal/scheduler: Scheduler.executeReset and                          *)
(* MultiScheduler.executeResetForAccount                                   *)
(***************************************************************************)
\* MinResetInterval, in minutes
MinResetInterval == 300

\* bounds of the trigger specifications: eligible subscriptions when one run
\* is followed alone and when two runs are, and the stored failure count
MaxResults     == 2
OverlapResults == 1
MaxFailures    == 1

\* two trigger runs for one account
Runs == {1, 2}

ResultKinds == {"success", "error", "skipped"}

\* a reset.Result of the given kind for the i-th eligible subscription
RunResult(i, k) ==
    LET r == [NewResult(MkSub(i, sPRO, sPRO, sMONTHLY, 0, MaxCredits, i + 1))
                 EXCEPT !.BeforeResets = i + 1]
    IN  IF k = "success"
        THEN [r EXCEPT !.Acked = TRUE, !.Attempts = 1,
                       !.AfterCredits = MaxCredits, !.AfterResets = i]
        ELSE IF k = "error"
        THEN [r EXCEPT !.Err = "reset", !.Attempts = 1]
        ELSE [r EXCEPT !.Skipped = TRUE, !.SkipReason = "threshold"]

\* what runner.Execute can return: an error, or one result per eligible
\* subscription
Outcomes(max) ==
    {[err |-> TRUE, results |-> <<>>]} \cup
    { [err |-> FALSE, results |-> [i \in 1..n |-> RunResult(i, f[i])]] :
        n \in 0..max, f \in [1..max -> ResultKinds] }

NoOutcome == [err |-> FALSE, results |-> <<>>]

\* fmt.Sprintf("%s_reset", resetType)
OperationOf(kind) == IF kind = sFirst THEN "first_reset" ELSE "second_reset"

AlreadyRan(st, kind) ==
    \/ kind = sFirst /\ st.FirstResetToday
    \/ kind = sSecond /\ st.SecondResetToday

\* the interval check of Scheduler.executeReset
GateBlocksSingle(st, kind, t) ==
    /\ kind = sSecond
    /\ st.LastFirstResetTime # NoTimestamp
    /\ t - st.LastFirstResetTime[1] < MinResetInterval

\* the interval check of MultiScheduler.executeResetForAccount
GateBlocksMulti(st, kind, t) ==
    LET lastResetTime == IF kind = sFirst THEN st.LastFirstResetTime
                         ELSE st.LastSecondResetTime
    IN  /\ lastResetTime # NoTimestamp
        /\ t - lastResetTime[1] < MinResetInterval

GateBlocks(m, st, kind, t) ==
    IF m = "single" THEN GateBlocksSingle(st, kind, t) ELSE GateBlocksMulti(st, kind, t)

\* the timestamp of the trigger kind set, the ran-today flag left alone
MarkRan_TimestampOnly(st, kind, t) ==
    IF kind = sFirst
    THEN [st EXCEPT !.LastFirstResetTime = <<t>>]
    ELSE [st EXCEPT !.LastSecondResetTime = <<t>>]

\* the ran-today flag and the timestamp of the trigger kind
MarkRan(st, kind, t) ==
    IF kind = sFirst
    THEN [st EXCEPT !.FirstResetToday = TRUE, !.LastFirstResetTime = <<t>>]
    ELSE [st EXCEPT !.SecondResetToday = TRUE, !.LastSecondResetTime = <<t>>]

\* the loop over the results; single mode records the metrics of every
\* success, multi mode those of the first one
RECURSIVE AggregateResults(_, _, _, _)
AggregateResults(m, rs, i, acc) ==
    IF i > Len(rs) THEN acc
    ELSE LET res  == rs[i]
             name == res.Subscription.SubscriptionName
         IN  IF res.Err # NoErr
             THEN AggregateResults(m, rs, i + 1,
                    [acc EXCEPT !.anyError = TRUE, !.lastMessage = <<"error", name>>])
             ELSE IF res.Skipped
             THEN AggregateResults(m, rs, i + 1,
                    [acc EXCEPT !.lastMessage = <<"skipped", name>>])
             ELSE AggregateResults(m, rs, i + 1,
                    [acc EXCEPT
                       !.anySuccess = TRUE,
                       !.lastMessage = <<"success", name>>,
                       !.firstSuccessRecorded = TRUE,
                       !.st = IF m = "single" \/ ~acc.firstSuccessRecorded
                              THEN [@ EXCEPT !.ResetTimesBeforeReset = res.BeforeResets,
                                             !.CreditsBeforeReset = res.BeforeCredits,
                                             !.ResetTimesAfterReset = res.AfterResets,
                                             !.CreditsAfterReset = res.AfterCredits]
                              ELSE @])

Aggregate(m, st, rs) ==
    AggregateResults(m, rs, 1,
        [anySuccess |-> FALSE, anyError |-> FALSE, lastMessage |-> NoMessage,
         firstSuccessRecorded |-> FALSE, st |-> st])

\* recordFailure that leaves the flag and the timestamp alone
recordFailure_NoMark(st, kind, t) ==
    [st EXCEPT !.LastResetSuccess = FALSE,
               !.LastResetMessage = <<"error", "listing">>,
               !.ConsecutiveFailures = @ + 1]

\* Scheduler.recordFailure
recordFailure(st, kind, t) ==
    [MarkRan(st, kind, t) EXCEPT !.LastResetSuccess = FALSE,
                                 !.LastResetMessage = <<"error", "listing">>,
                                 !.ConsecutiveFailures = @ + 1]

\* Scheduler.recordSkip
recordSkip(st, kind, t) ==
    [MarkRan(st, kind, t) EXCEPT !.LastResetSuccess = TRUE,
                                 !.LastResetMessage = <<"skipped", "no_match">>]

\* MultiScheduler.updateResetStatus
updateResetStatus(st, kind, success, message, t) ==
    [MarkRan(st, kind, t) EXCEPT !.LastResetSuccess = success,
                                 !.LastResetMessage = message,
                                 !.ConsecutiveFailures = IF success THEN 0 ELSE @ + 1]

\* Scheduler.executeReset after runner.Execute
RecordSingle(st, kind, o, t) ==
    IF o.err THEN recordFailure(st, kind, t)
    ELSE IF Len(o.results) = 0 THEN recordSkip(st, kind, t)
    ELSE LET a == Aggregate("single", st, o.results)
         IN  [MarkRan(a.st, kind, t) EXCEPT
                !.LastResetMessage = a.lastMessage,
                !.LastResetSuccess = IF a.anySuccess THEN TRUE
                                     ELSE IF a.anyError THEN FALSE ELSE TRUE,
                !.ConsecutiveFailures = IF a.anySuccess THEN 0
                                        ELSE IF a.anyError THEN @ + 1 ELSE @]

\* MultiScheduler.executeResetForAccount after runner.Execute
RecordMulti(st, kind, o, t) ==
    IF o.err THEN updateResetStatus(st, kind, FALSE, <<"error", "listing">>, t)
    ELSE IF Len(o.results) = 0
    THEN updateResetStatus(st, kind, TRUE, <<"no_match">>, t)
    ELSE LET a == Aggregate("multi", st, o.results)
         IN  updateResetStatus(a.st, kind, a.anySuccess \/ ~a.anyError, a.lastMessage, t)

Record(m, st, kind, o, t) ==
    IF m = "single" THEN RecordSingle(st, kind, o, t) ELSE RecordMulti(st, kind, o, t)

\* the exit path of a run that got as far as runner.Execute
RecordedPath(o) ==
    IF o.err THEN "listing_error"
    ELSE IF Len(o.results) = 0 THEN "no_match" ELSE "completed"

\* the lock file after a refused AcquireLock, with the holder removed
RefusedLock_Removed(lf) == NoFile

\* AcquireLock refused by a fresh lock: the error is returned before anything
\* is written
RefusedLock(lf) == lf

\* a trigger fires: the single-account scheduler takes the run lock, the
\* multi-account scheduler starts on the account at once
TrigStart(r) ==
    /\ tpc[r] = "idle"
    /\ \A q \in Runs : q < r => tpc[q] # "idle"
    /\ before' = [before EXCEPT ![r] = {q \in Runs : tpc[q] = "done"}]
    /\ IF mode = "single"
       THEN IF lockFile.exists /\ LockIsFresh(lockFile, now)
            THEN /\ lpc' = [lpc EXCEPT ![r] = "failed"]
                 /\ tpc' = [tpc EXCEPT ![r] = "done"]
                 /\ path' = [path EXCEPT ![r] = "locked"]
                 /\ lockFile' = RefusedLock(lockFile)
            ELSE /\ lockFile' = [exists |-> TRUE, pid |-> r, start |-> now, op |-> lop[r]]
                 /\ lpc' = [lpc EXCEPT ![r] = "held"]
                 /\ tpc' = [tpc EXCEPT ![r] = "load"]
                 /\ UNCHANGED path
       ELSE /\ tpc' = [tpc EXCEPT ![r] = "load"]
            /\ UNCHANGED <<lockFile, lpc, path>>
    /\ UNCHANGED <<tmpFile, now, proc, mu, lop, startTime>>
    /\ UNCHANGED <<mode, statusFile, tkind, status, outcome, src, loadAt, saved, eligible>>
    /\ UNCHANGED <<filterVars, execVars, fanVars, loopVars, extVars>>

\* the status is loaded, then the already-ran check and the interval check
TrigLoad(r) ==
    /\ tpc[r] = "load"
    /\ \/ \* the file is there and cannot be read
          /\ statusFile # <<>>
          /\ path' = [path EXCEPT ![r] = "load_error"]
          /\ tpc' = [tpc EXCEPT ![r] = "exit"]
          /\ UNCHANGED <<status, src, loadAt>>
       \/ LET st == LoadStatus(statusFile, now)
          IN  /\ status' = [status EXCEPT ![r] = st]
              /\ src' = [src EXCEPT ![r] = statusFile]
              /\ loadAt' = [loadAt EXCEPT ![r] = now]
              /\ IF AlreadyRan(st, tkind[r])
                 THEN /\ path' = [path EXCEPT ![r] = "ran_today"]
                      /\ tpc' = [tpc EXCEPT ![r] = "exit"]
                 ELSE IF GateBlocks(mode, st, tkind[r], now)
                 THEN /\ path' = [path EXCEPT ![r] = "gate"]
                      /\ tpc' = [tpc EXCEPT ![r] = "exit"]
                 ELSE /\ tpc' = [tpc EXCEPT ![r] = "execute"]
                      /\ UNCHANGED path
    /\ UNCHANGED <<mode, statusFile, tkind, outcome, saved, before, eligible>>
    /\ UNCHANGED <<filterVars, execVars, lockVars, fanVars, loopVars, extVars>>

\* runner.Execute is called: from here on the run talks to the remote service
TrigExecute(r) ==
    /\ tpc[r] = "execute"
    /\ tpc' = [tpc EXCEPT ![r] = "record"]
    /\ UNCHANGED <<mode, statusFile, tkind, status, outcome, src, loadAt, path, saved,
                   before, eligible>>
    /\ UNCHANGED <<filterVars, execVars, lockVars, fanVars, loopVars, extVars>>

\* runner.Execute returns, its outcome is recorded in the status and the
\* status is saved; a failed save is logged and nothing else
TrigRecord(r) ==
    /\ tpc[r] = "record"
    /\ \E o \in Outcomes(eligible) :
          LET st == StampStatus(Record(mode, status[r], tkind[r], o, now), now)
          IN  /\ outcome' = [outcome EXCEPT ![r] = o]
              /\ status' = [status EXCEPT ![r] = st]
              /\ path' = [path EXCEPT ![r] = RecordedPath(o)]
              /\ \/ /\ statusFile' = <<st>>
                    /\ saved' = [saved EXCEPT ![r] = <<st>>]
                 \/ UNCHANGED <<statusFile, saved>>
    /\ tpc' = [tpc EXCEPT ![r] = "exit"]
    /\ UNCHANGED <<mode, tkind, src, loadAt, before, eligible>>
    /\ UNCHANGED <<filterVars, execVars, lockVars, fanVars, loopVars, extVars>>

\* the deferred ReleaseLock run only when the run completed normally
ReleasesOn_CompletedOnly(p) == p = "completed"

\* whether the deferred ReleaseLock runs on the given exit path
ReleasesOn(p) == TRUE

\* the function returns; in single-account mode the deferred ReleaseLock runs
TrigReturn(r) ==
    /\ tpc[r] = "exit"
    /\ tpc' = [tpc EXCEPT ![r] = "done"]
    /\ IF mode = "single" /\ ReleasesOn(path[r])
       THEN /\ lockFile' = NoFile
            /\ lpc' = [lpc EXCEPT ![r] = "released"]
       ELSE UNCHANGED <<lockFile, lpc>>
    /\ UNCHANGED <<tmpFile, now, proc, mu, lop, startTime>>
    /\ UNCHANGED <<mode, statusFile, tkind, status, outcome, src, loadAt, path, saved,
                   before, eligible>>
    /\ UNCHANGED <<filterVars, execVars, fanVars, loopVars, extVars>>

\* the instants of the trigger specification: the start of a day, just
\* inside and at the minimum interval after it, the next day
TrigTimes ==
    {DayMinutes, DayMinutes + MinResetInterval - 1, DayMinutes + MinResetInterval,
     2 * DayMinutes}

\* time passes between two runs (a run is over within its minute)
TrigAdvance ==
    /\ \E r \in Runs : tpc[r] = "idle"
    /\ \A r \in Runs : tpc[r] \in {"idle", "done", "absent"}
    /\ \E t \in TrigTimes : t > now /\ now' = t
    /\ UNCHANGED <<lockFile, tmpFile, proc, mu, lpc, lop, startTime>>
    /\ UNCHANGED <<filterVars, execVars, schedVars, extVars>>

\* the status left by yesterday's runs, the last of them shortly before midnight
YesterdayStatus(c) ==
    [initializeStatus(DayMinutes - 1) EXCEPT
        !.LastFirstResetTime = <<DayMinutes - MinResetInterval>>,
        !.LastSecondResetTime = <<DayMinutes - 1>>,
        !.FirstResetToday = TRUE,
        !.SecondResetToday = TRUE,
        !.LastResetSuccess = (c = 0),
        !.LastResetMessage = IF c = 0 THEN <<"success", sPRO>> ELSE <<"error", sPRO>>,
        !.ConsecutiveFailures = c,
        !.ResetTimesBeforeReset = 2,
        !.ResetTimesAfterReset = 1,
        !.CreditsAfterReset = MaxCredits]

\* the status after today's first run, made at the start of the day
FirstDoneStatus ==
    [initializeStatus(DayMinutes) EXCEPT
        !.LastFirstResetTime = <<DayMinutes>>,
        !.FirstResetToday = TRUE,
        !.LastResetSuccess = TRUE,
        !.LastResetMessage = <<"skipped", sPRO>>]

InitStatusFiles ==
    {<<>>} \cup { <<YesterdayStatus(c)>> : c \in 0..MaxFailures }
           \cup {<<FirstDoneStatus>>}

TrigIdle ==
    /\ mode = "off"
    /\ statusFile = <<>>
    /\ tkind = <<>>
    /\ tpc = <<>>
    /\ status = <<>>
    /\ outcome = <<>>
    /\ src = <<>>
    /\ loadAt = <<>>
    /\ path = <<>>
    /\ saved = <<>>
    /\ before = <<>>
    /\ eligible = 0

\* the triggers in `active` are about to fire for the account, which has up
\* to n eligible subscriptions
TrigStartState(active, n) ==
    /\ mode \in {"single", "multi"}
    /\ statusFile \in InitStatusFiles
    /\ tkind \in [Runs -> {sFirst, sSecond}]
    /\ tpc = [r \in Runs |-> IF r \in active THEN "idle" ELSE "absent"]
    /\ status = [r \in Runs |-> initializeStatus(0)]
    /\ outcome = [r \in Runs |-> NoOutcome]
    /\ src = [r \in Runs |-> <<>>]
    /\ loadAt = [r \in Runs |-> 0]
    /\ path = [r \in Runs |-> "none"]
    /\ saved = [r \in Runs |-> <<>>]
    /\ before = [r \in Runs |-> {}]
    /\ eligible = n
    /\ lockFile = NoFile
    /\ tmpFile = NoFile
    /\ now = DayMinutes
    /\ proc = [r \in Runs |-> 1]
    /\ mu = <<0>>
    /\ lpc = [r \in Runs |-> "idle"]
    /\ lop = [r \in Runs |-> OperationOf(tkind[r])]
    /\ startTime = [r \in Runs |-> 0]

\* two triggers for the same account
TrigInit == TrigStartState(Runs, OverlapResults)

\* one trigger
RecordInit == TrigStartState({1}, MaxResults)

TrigNext ==
    \/ \E r \in Runs : TrigStart(r)
    \/ \E r \in Runs : TrigLoad(r)
    \/ \E r \in Runs : TrigExecute(r)
    \/ \E r \in Runs : TrigRecord(r)
    \/ \E r \in Runs : TrigReturn(r)
    \/ TrigAdvance

(***************************************************************************)
(* internal/scheduler: MultiScheduler.executeResetForAllAccounts           *)
(***************************************************************************)
\* bound of the fan-out specification: len(s.activeAccounts)
NumAccounts == 3

Units == 1..NumAccounts

\* mu.Lock() lets everybody in
MutexFree_Always(m) == TRUE

\* mu.Lock() proceeds when nobody holds the mutex
MutexFree(m) == m = 0

\* the loop over s.activeAccounts: wg.Add(1) and go func(...)
FanSpawn(u) ==
    /\ cpc = "spawning"
    /\ upc[u] = "new"
    /\ \A v \in Units : v < u => upc[v] # "new"
    /\ wg' = wg + 1
    /\ upc' = [upc EXCEPT ![u] = "running"]
    /\ UNCHANGED <<unitOK, successCount, failCount, cmu, reg, cpc, reported>>
    /\ UNCHANGED <<filterVars, execVars, lockVars, trigVars, loopVars, extVars>>

\* the loop is over, the coordinator reaches wg.Wait()
FanSpawned ==
    /\ cpc = "spawning"
    /\ \A u \in Units : upc[u] # "new"
    /\ cpc' = "waiting"
    /\ UNCHANGED <<upc, unitOK, successCount, failCount, cmu, reg, wg, reported>>
    /\ UNCHANGED <<filterVars, execVars, lockVars, trigVars, loopVars, extVars>>

\* success := s.executeResetForAccount(account, resetType)
FanExecute(u) ==
    /\ upc[u] = "running"
    /\ \E ok \in BOOLEAN : unitOK' = [unitOK EXCEPT ![u] = ok]
    /\ upc' = [upc EXCEPT ![u] = "lock"]
    /\ UNCHANGED <<successCount, failCount, cmu, reg, wg, cpc, reported>>
    /\ UNCHANGED <<filterVars, execVars, lockVars, trigVars, loopVars, extVars>>

\* mu.Lock()
FanLock(u) ==
    /\ upc[u] = "lock"
    /\ MutexFree(cmu)
    /\ cmu' = u
    /\ upc' = [upc EXCEPT ![u] = "read"]
    /\ UNCHANGED <<unitOK, successCount, failCount, reg, wg, cpc, reported>>
    /\ UNCHANGED <<filterVars, execVars, lockVars, trigVars, loopVars, extVars>>

\* successCount++ / failCount++ : the counter is read
FanRead(u) ==
    /\ upc[u] = "read"
    /\ reg' = [reg EXCEPT ![u] = IF unitOK[u] THEN successCount ELSE failCount]
    /\ upc' = [upc EXCEPT ![u] = "write"]
    /\ UNCHANGED <<unitOK, successCount, failCount, cmu, wg, cpc, reported>>
    /\ UNCHANGED <<filterVars, execVars, lockVars, trigVars, loopVars, extVars>>

\* successCount++ / failCount++ : the counter is written, then mu.Unlock()
FanWrite(u) ==
    /\ upc[u] = "write"
    /\ IF unitOK[u]
       THEN successCount' = reg[u] + 1 /\ UNCHANGED failCount
       ELSE failCount' = reg[u] + 1 /\ UNCHANGED successCount
    /\ cmu' = 0
    /\ upc' = [upc EXCEPT ![u] = "unlocked"]
    /\ UNCHANGED <<unitOK, reg, wg, cpc, reported>>
    /\ UNCHANGED <<filterVars, execVars, lockVars, trigVars, loopVars, extVars>>

\* the deferred wg.Done()
FanDone(u) ==
    /\ upc[u] = "unlocked"
    /\ wg' = wg - 1
    /\ upc' = [upc EXCEPT ![u] = "finished"]
    /\ UNCHANGED <<unitOK, successCount, failCount, cmu, reg, cpc, reported>>
    /\ UNCHANGED <<filterVars, execVars, lockVars, trigVars, loopVars, extVars>>

\* wg.Wait() returns and the totals are logged
FanReport ==
    /\ cpc = "waiting"
    /\ wg = 0
    /\ reported' = <<successCount, failCount>>
    /\ cpc' = "reported"
    /\ UNCHANGED <<upc, unitOK, successCount, failCount, cmu, reg, wg>>
    /\ UNCHANGED <<filterVars, execVars, lockVars, trigVars, loopVars, extVars>>

FanIdle ==
    /\ upc = <<>>
    /\ unitOK = <<>>
    /\ successCount = 0
    /\ failCount = 0
    /\ cmu = 0
    /\ reg = <<>>
    /\ wg = 0
    /\ cpc = "off"
    /\ reported = <<>>

FanInit ==
    /\ upc = [u \in Units |-> "new"]
    /\ unitOK = [u \in Units |-> FALSE]
    /\ successCount = 0
    /\ failCount = 0
    /\ cmu = 0
    /\ reg = [u \in Units |-> 0]
    /\ wg = 0
    /\ cpc = "spawning"
    /\ reported = <<>>

FanNext ==
    \/ \E u \in Units : FanSpawn(u)
    \/ FanSpawned
    \/ \E u \in Units : FanExecute(u)
    \/ \E u \in Units : FanLock(u)
    \/ \E u \in Units : FanRead(u)
    \/ \E u \in Units : FanWrite(u)
    \/ \E u \in Units : FanDone(u)
    \/ FanReport

(***************************************************************************)
(* internal/scheduler: loopController.run                                  *)
(***************************************************************************)
\* SubscriptionCheckInterval, in minutes
SubscriptionCheckInterval == 5

\* bounds of the loop specification
MaxLoopClock == 12
MaxTickGap   == 2
MaxCheckTime == 1

\* t.Truncate(interval)
alignSlot(t) == t - (t % SubscriptionCheckInterval)

\* a slot no earlier than the stored one counts as new
SlotAfter_OrEqual(slot, last) == slot >= last

\* slot.After(l.lastSubscriptionSlot)
SlotAfter(slot, last) == slot > last

\* the initial check: subscriptionCheck(), the slot of the time it returned
\* at, resetCheck(), and the ticker is created
LoopEnter ==
    /\ loopPc = "new"
    /\ refreshes' = <<clock>>
    /\ \E d \in 0..MaxCheckTime :
          /\ clock + d <= MaxLoopClock
          /\ clock' = clock + d
    /\ lastSubscriptionSlot' = alignSlot(clock')
    /\ checks' = 1
    /\ loopPc' = "ticking"
    /\ UNCHANGED <<filterVars, execVars, lockVars, trigVars, fanVars, extVars>>

\* case <-ticker.C: a tick is handled a minute or more after the previous one
LoopTick ==
    /\ loopPc = "ticking"
    /\ \E d \in 1..MaxTickGap :
          /\ clock + d <= MaxLoopClock
          /\ clock' = clock + d
    /\ IF SlotAfter(alignSlot(clock'), lastSubscriptionSlot)
       THEN /\ refreshes' = Append(refreshes, clock')
            /\ lastSubscriptionSlot' = alignSlot(clock')
       ELSE UNCHANGED <<refreshes, lastSubscriptionSlot>>
    /\ checks' = checks + 1
    /\ UNCHANGED loopPc
    /\ UNCHANGED <<filterVars, execVars, lockVars, trigVars, fanVars, extVars>>

\* case <-l.ctx.Done(): Stop was called
LoopStop ==
    /\ loopPc = "ticking"
    /\ loopPc' = "stopped"
    /\ UNCHANGED <<clock, lastSubscriptionSlot, refreshes, checks>>
    /\ UNCHANGED <<filterVars, execVars, lockVars, trigVars, fanVars, extVars>>

LoopIdle ==
    /\ clock = 0
    /\ lastSubscriptionSlot = 0
    /\ loopPc = "off"
    /\ refreshes = <<>>
    /\ checks = 0

\* run is entered at any minute of a refresh slot
LoopInit ==
    /\ clock \in 0..(SubscriptionCheckInterval - 1)
    /\ lastSubscriptionSlot = 0
    /\ loopPc = "new"
    /\ refreshes = <<>>
    /\ checks = 0

LoopNext ==
    \/ LoopEnter
    \/ LoopTick
    \/ LoopStop

SchedIdle == TrigIdle /\ FanIdle /\ LoopIdle

(***************************************************************************)
(* internal/scheduler: loopController.run against Stop                     *)
(***************************************************************************)
\* bounds of the stop specification
MaxStops  == 3
MaxTicks  == 3
MaxBuffer == 2

\* the cancel function toggles the context
cancel_Toggle(done) == ~done

\* l.cancel(): the context is cancelled, whatever it was
cancel(done) == TRUE

\* Scheduler.Stop: l.cancel() and s.logAgg.Flush()
StopCall ==
    /\ rpc # "off"
    /\ stops < MaxStops
    /\ stops' = stops + 1
    /\ ctxDone' = cancel(ctxDone)
    /\ logBuffer' = 0
    /\ stoppedIn' = stoppedIn \cup {rpc}
    /\ UNCHANGED <<tickReady, rpc, ticks, entered, handled, lateStarts>>
    /\ UNCHANGED stopFrame

\* Scheduler.Start: run is entered and begins the initial checks
RunEnter ==
    /\ rpc = "created"
    /\ rpc' = "initial"
    /\ UNCHANGED <<ctxDone, tickReady, stops, logBuffer, ticks, entered, handled, lateStarts,
                   stoppedIn>>
    /\ UNCHANGED stopFrame

\* the initial subscriptionCheck() and resetCheck() are over, the ticker is
\* created and run waits in the select
RunInitialDone ==
    /\ rpc = "initial"
    /\ rpc' = "select"
    /\ logBuffer' = IF logBuffer < MaxBuffer THEN logBuffer + 1 ELSE logBuffer
    /\ UNCHANGED <<ctxDone, tickReady, stops, ticks, entered, handled, lateStarts, stoppedIn>>
    /\ UNCHANGED stopFrame

\* the ticker sends a tick; its channel holds one tick, further ones are
\* dropped while it is full; a select that can return does so before the
\* next tick is due
TickerFire ==
    /\ rpc \in {"select", "handling"}
    /\ ~(rpc = "select" /\ ctxDone)
    /\ ticks < MaxTicks
    /\ ticks' = ticks + 1
    /\ tickReady' = TRUE
    /\ UNCHANGED <<ctxDone, rpc, stops, logBuffer, entered, handled, lateStarts, stoppedIn>>
    /\ UNCHANGED stopFrame

\* select: case <-ticker.C is taken; with the context cancelled as well the
\* runtime picks either ready case
SelectTick ==
    /\ rpc = "select"
    /\ tickReady
    /\ tickReady' = FALSE
    /\ rpc' = "handling"
    /\ entered' = entered + 1
    /\ lateStarts' = IF ctxDone THEN lateStarts + 1 ELSE lateStarts
    /\ UNCHANGED <<ctxDone, stops, logBuffer, ticks, handled, stoppedIn>>
    /\ UNCHANGED stopFrame

\* the tick's subscriptionCheck() and resetCheck() return; nothing in them
\* reads the context
HandlerDone ==
    /\ rpc = "handling"
    /\ rpc' = "select"
    /\ handled' = handled + 1
    /\ logBuffer' = IF logBuffer < MaxBuffer THEN logBuffer + 1 ELSE logBuffer
    /\ UNCHANGED <<ctxDone, tickReady, stops, ticks, entered, lateStarts, stoppedIn>>
    /\ UNCHANGED stopFrame

\* select: case <-l.ctx.Done() is taken and run returns
SelectDone ==
    /\ rpc = "select"
    /\ ctxDone
    /\ rpc' = "returned"
    /\ UNCHANGED <<ctxDone, tickReady, stops, logBuffer, ticks, entered, handled, lateStarts,
                   stoppedIn>>
    /\ UNCHANGED stopFrame

StopIdle ==
    /\ ctxDone = FALSE
    /\ tickReady = FALSE
    /\ rpc = "off"
    /\ stops = 0
    /\ logBuffer = 0
    /\ ticks = 0
    /\ entered = 0
    /\ handled = 0
    /\ lateStarts = 0
    /\ stoppedIn = {}

\* newLoopController: the scheduler is constructed, Start not yet called
StopInit ==
    /\ ctxDone = FALSE
    /\ tickReady = FALSE
    /\ rpc = "created"
    /\ stops = 0
    /\ logBuffer \in 0..1
    /\ ticks = 0
    /\ entered = 0
    /\ handled = 0
    /\ lateStarts = 0
    /\ stoppedIn = {}

StopNext ==
    \/ StopCall
    \/ RunEnter
    \/ RunInitialDone
    \/ TickerFire
    \/ SelectTick
    \/ HandlerDone
    \/ SelectDone

(***************************************************************************)
(* internal/storage: saveJSON                                              *)
(***************************************************************************)
\* bounds of the save specification: writes a content takes, saves, crashes
MaxChunks  == 2
MaxSaves   == 2
MaxCrashes == 2

\* the files saved this way that the triggers use
SaveTargets == {"status.json", "reset.lock"}

\* the data is written to the target itself
tempFile_Same(filePath) == <<filePath>>

\* tempFile := filePath + ".tmp"
tempFile(filePath) == <<filePath, ".tmp">>

SavePaths == {<<f>> : f \in SaveTargets} \cup {<<f, ".tmp">> : f \in SaveTargets}

\* a missing file; a file holding the first len pieces of version ver
NoContent == [exists |-> FALSE, ver |-> 0, len |-> 0]

Content(v, n) == [exists |-> TRUE, ver |-> v, len |-> n]

\* SaveStatus / AcquireLock call saveJSON(filePath, data): the data is
\* marshalled
SaveBegin(f) ==
    /\ spc = "idle"
    /\ saves < MaxSaves
    /\ saves' = saves + 1
    /\ dest' = f
    /\ prevTarget' = files[<<f>>]
    /\ spc' = "open"
    /\ UNCHANGED <<files, crashes>>
    /\ UNCHANGED saveFrame

\* os.WriteFile opens the temporary file, truncating it, or fails to
SaveOpen ==
    /\ spc = "open"
    /\ \/ /\ files' = [files EXCEPT ![tempFile(dest)] = Content(saves, 0)]
          /\ spc' = "write"
       \/ /\ spc' = "idle"
          /\ UNCHANGED files
    /\ UNCHANGED <<dest, saves, prevTarget, crashes>>
    /\ UNCHANGED saveFrame

\* os.WriteFile writes the next piece of the data, or fails and saveJSON
\* returns the error
SaveWrite ==
    /\ spc = "write"
    /\ files[tempFile(dest)].len < MaxChunks
    /\ \/ /\ files' = [files EXCEPT ![tempFile(dest)].len = @ + 1]
          /\ UNCHANGED spc
       \/ /\ spc' = "idle"
          /\ UNCHANGED files
    /\ UNCHANGED <<dest, saves, prevTarget, crashes>>
    /\ UNCHANGED saveFrame

\* os.WriteFile has written everything and closes the file
SaveClose ==
    /\ spc = "write"
    /\ files[tempFile(dest)].len = MaxChunks
    /\ spc' = "rename"
    /\ UNCHANGED <<files, dest, saves, prevTarget, crashes>>
    /\ UNCHANGED saveFrame

\* os.Rename(tempFile, filePath); when it fails, os.Remove(tempFile)
SaveRename ==
    /\ spc = "rename"
    /\ \/ files' = [p \in SavePaths |->
                      IF p = <<dest>> THEN files[tempFile(dest)]
                      ELSE IF p = tempFile(dest) THEN NoContent
                      ELSE files[p]]
       \/ files' = [files EXCEPT ![tempFile(dest)] = NoContent]
    /\ spc' = "idle"
    /\ UNCHANGED <<dest, saves, prevTarget, crashes>>
    /\ UNCHANGED saveFrame

\* the process dies during the save; the files stay as they are and a new
\* process starts
SaveCrash ==
    /\ spc # "idle"
    /\ crashes < MaxCrashes
    /\ crashes' = crashes + 1
    /\ spc' = "idle"
    /\ UNCHANGED <<files, dest, saves, prevTarget>>
    /\ UNCHANGED saveFrame

SaveIdle ==
    /\ files = <<>>
    /\ spc = "off"
    /\ dest = ""
    /\ saves = 0
    /\ prevTarget = NoContent
    /\ crashes = 0

\* the data directory before a save: each target missing or complete
SaveInit ==
    /\ files \in {fs \in [SavePaths -> {NoContent, Content(0, MaxChunks)}] :
                    \A f \in SaveTargets : fs[<<f, ".tmp">>] = NoContent}
    /\ spc = "idle"
    /\ dest = "status.json"
    /\ saves = 0
    /\ prevTarget = NoContent
    /\ crashes = 0

SaveNext ==
    \/ \E f \in SaveTargets : SaveBegin(f)
    \/ SaveOpen
    \/ SaveWrite
    \/ SaveClose
    \/ SaveRename
    \/ SaveCrash

(***************************************************************************)
(* internal/app: App.runManualMode with Scheduler.ManualReset              *)
(***************************************************************************)
\* the configured thresholds, as a scheduled `first` trigger would use them
ManualConfigs == {o \in ExecOptions : o.ResetType = sFirst}

\* the account's target subscription, a monthly plan
ManualSubs ==
    { MkSub(1, sPRO, sPRO, sMONTHLY, c, MaxCredits, r) :
        c \in 0..MaxCredits, r \in 0..MaxResets }

\* client.GetTargetSubscription(); below two resets the run ends with an error
ManFetch ==
    /\ mpc = "fetch"
    /\ \/ /\ mSub' = mLedger
          /\ mpc' = IF mLedger.ResetTimes < 2 THEN "done" ELSE "confirm"
          /\ mNote' = IF mLedger.ResetTimes < 2 THEN "reset_times" ELSE mNote
       \/ /\ mpc' = "done"
          /\ mNote' = "fetch_error"
          /\ UNCHANGED mSub
    /\ UNCHANGED <<mLedger, mLate, mCfg, mPosts, mAfter, mStatusFile, mLock>>
    /\ UNCHANGED manFrame

\* the confirmation prompt: skipped, answered yes, or answered otherwise
ManConfirm ==
    /\ mpc = "confirm"
    /\ \/ mpc' = "lock" /\ UNCHANGED mNote
       \/ mpc' = "done" /\ mNote' = "cancelled"
    /\ UNCHANGED <<mLedger, mLate, mCfg, mSub, mPosts, mAfter, mStatusFile, mLock>>
    /\ UNCHANGED manFrame

\* Scheduler.ManualReset: AcquireLock("manual_reset"), GetTargetSubscription,
\* the reset count check, and the deferred ReleaseLock
ManManualReset ==
    /\ mpc = "lock"
    /\ \/ /\ mLock
          /\ mpc' = "done"
          /\ mNote' = "locked"
       \/ /\ ~mLock
          /\ \/ mpc' = "done" /\ mNote' = "fetch_error"
             \/ IF mLedger.ResetTimes < 2
                THEN mpc' = "done" /\ mNote' = "reset_times"
                ELSE mpc' = "post" /\ UNCHANGED mNote
    /\ UNCHANGED <<mLedger, mLate, mCfg, mSub, mPosts, mAfter, mStatusFile, mLock>>
    /\ UNCHANGED manFrame

\* client.ResetCredits(targetSub.ID): an error ends the run; an acknowledged
\* request takes effect at once or later
ManPost ==
    /\ mpc = "post"
    /\ mPosts' = mPosts + 1
    /\ \/ /\ mpc' = "done"
          /\ mNote' = "reset_error"
          /\ UNCHANGED <<mLedger, mLate>>
       \/ /\ mpc' = "verify"
          /\ mNote' = "acknowledged"
          /\ \/ mLedger' = ResetEffect(mLedger) /\ UNCHANGED mLate
             \/ mLate' = TRUE /\ UNCHANGED mLedger
    /\ UNCHANGED <<mCfg, mSub, mAfter, mStatusFile, mLock>>
    /\ UNCHANGED manFrame

\* an acknowledged reset takes effect on the service
ManLateApply ==
    /\ mLate
    /\ mLate' = FALSE
    /\ mLedger' = ResetEffect(mLedger)
    /\ UNCHANGED <<mpc, mCfg, mSub, mPosts, mNote, mAfter, mStatusFile, mLock>>
    /\ UNCHANGED manFrame

\* after the sleep: GetTargetSubscription again; what it shows is logged
ManVerify ==
    /\ mpc = "verify"
    /\ \/ mAfter' = <<mLedger>>
       \/ UNCHANGED mAfter
    /\ mpc' = "done"
    /\ UNCHANGED <<mLedger, mLate, mCfg, mSub, mPosts, mNote, mStatusFile, mLock>>
    /\ UNCHANGED manFrame

ManIdle ==
    /\ mpc = "off"
    /\ mLedger = NoSub
    /\ mLate = FALSE
    /\ mCfg = <<>>
    /\ mSub = NoSub
    /\ mPosts = 0
    /\ mNote = ""
    /\ mAfter = <<>>
    /\ mStatusFile = <<>>
    /\ mLock = FALSE

\* the manual mode is started for an account
ManInit ==
    /\ mpc = "fetch"
    /\ mLedger \in ManualSubs
    /\ mLate = FALSE
    /\ mCfg \in ManualConfigs
    /\ mSub = NoSub
    /\ mPosts = 0
    /\ mNote = ""
    /\ mAfter = <<>>
    /\ mStatusFile \in {<<>>, <<YesterdayStatus(0)>>}
    /\ mLock \in BOOLEAN

ManNext ==
    \/ ManFetch
    \/ ManConfirm
    \/ ManManualReset
    \/ ManPost
    \/ ManLateApply
    \/ ManVerify

(***************************************************************************)
(* cmd main, internal/config and internal/scheduler: start-up in run mode  *)
(***************************************************************************)
\* DefaultCreditThresholdMax, in percent
DefaultCreditThresholdMax == 83

\* bound of the start-up specification: ticks handled once running
MaxStartTicks == 2

\* a textual setting: absent, text that is no number, or text that reads
\* as the number n
NoSetting == [present |-> FALSE, number |-> FALSE, value |-> 0]

NotANumber == [present |-> TRUE, number |-> FALSE, value |-> 0]

Setting(n) == [present |-> TRUE, number |-> TRUE, value |-> n]

\* parseFloat: the value, or 0 where the callers ignore the error
parseFloat(s) == IF s.present /\ s.number THEN s.value ELSE 0

\* `if max == 0 { if val > 0 { max = val } }`
PickPositive(cur, val) == IF cur = 0 /\ val > 0 THEN val ELSE cur

\* GetCreditThresholds(cmdMax, cmdMin) with the environment and the .env file
GetCreditThresholds(c) ==
    LET max1 == PickPositive(0, c.cmdMax)
        min1 == PickPositive(0, c.cmdMin)
        max2 == PickPositive(max1, parseFloat(c.envMax))
        min2 == PickPositive(min1, parseFloat(c.envMin))
        max3 == PickPositive(max2, parseFloat(c.fileMax))
        min3 == PickPositive(min2, parseFloat(c.fileMin))
        max4 == IF max3 = 0 /\ min3 = 0 THEN DefaultCreditThresholdMax ELSE max3
    IN  [max |-> max4, min |-> min3, useMax |-> max4 > 0]

\* time zone names time.LoadLocation knows
KnownZones == {"Asia/Shanghai", "UTC"}

\* the resolved -timezone setting
ZoneSettings == {"", "UTC", "Mars/Phobos"}

\* NewSchedulerWithConfig: the zone defaults to BeijingTimezone
LoadLocation(tz) == (IF tz = "" THEN "Asia/Shanghai" ELSE tz) \in KnownZones

StartConfigs ==
    [cmdMax : {0, 50, 150}, cmdMin : {0, 20},
     envMax : {NoSetting, NotANumber, Setting(0 - 5), Setting(50), Setting(150)},
     envMin : {NoSetting, NotANumber, Setting(20)},
     fileMax : {NoSetting, NotANumber, Setting(150)},
     fileMin : {NoSetting, Setting(20)},
     tz : ZoneSettings]

\* main: the configuration is resolved
StartResolve ==
    /\ stpc = "main"
    /\ sThresholds' = <<GetCreditThresholds(sCfg)>>
    /\ stpc' = "resolved"
    /\ UNCHANGED <<sCfg, sRefreshes, sChecks>>
    /\ UNCHANGED startFrame

\* runSchedulerMode: NewSchedulerWithConfig; an error is logged and returned
StartNew ==
    /\ stpc = "resolved"
    /\ stpc' = IF LoadLocation(sCfg.tz) THEN "created" ELSE "failed"
    /\ UNCHANGED <<sCfg, sThresholds, sRefreshes, sChecks>>
    /\ UNCHANGED startFrame

\* sched.Start(): the loop's initial inventory refresh and trigger check
StartRun ==
    /\ stpc = "created"
    /\ stpc' = "running"
    /\ sRefreshes' = sRefreshes + 1
    /\ sChecks' = sChecks + 1
    /\ UNCHANGED <<sCfg, sThresholds>>
    /\ UNCHANGED startFrame

\* a tick of the running loop: a trigger check, and a refresh in a new slot
StartTick ==
    /\ stpc = "running"
    /\ sChecks <= MaxStartTicks
    /\ sChecks' = sChecks + 1
    /\ \/ sRefreshes' = sRefreshes + 1
       \/ UNCHANGED sRefreshes
    /\ UNCHANGED <<stpc, sCfg, sThresholds>>
    /\ UNCHANGED startFrame

StartIdle ==
    /\ stpc = "off"
    /\ sCfg = <<>>
    /\ sThresholds = <<>>
    /\ sRefreshes = 0
    /\ sChecks = 0

StartInit ==
    /\ stpc = "main"
    /\ sCfg \in StartConfigs
    /\ sThresholds = <<>>
    /\ sRefreshes = 0
    /\ sChecks = 0

StartNext ==
    \/ StartResolve
    \/ StartNew
    \/ StartRun
    \/ StartTick

(***************************************************************************)
(* internal/api: target plan matching of the client                        *)
(***************************************************************************)
\* the characters normalizePlanIdentifier removes; its full-width bracket
\* and comma entries do not occur in the names used here
Separators ==
    {"(", ")", "-", "_", " ", "\t", "\n", "\r", "|", "/", "\\", ":", ";",
     "@", "#", "+", ",", "."}

\* replacer.Replace: every separator character is dropped
RECURSIVE Strip(_)
Strip(s) ==
    IF s = <<>> THEN <<>>
    ELSE (IF Head(s) \in Separators THEN <<>> ELSE <<Head(s)>>) \o Strip(Tail(s))

normalizePlanIdentifier(input) == Strip(ToLower(TrimSpace(input)))

buildTargetPlanSet(targetPlans) ==
    { normalizePlanIdentifier(targetPlans[i]) : i \in 1..Len(targetPlans) }
        \ {sEmpty}

\* every subscription counts as monthly
isMonthlyPlan_Any(sub) == TRUE

isMonthlyPlan(sub) ==
    LET planType == TrimSpace(ToUpper(sub.PlanType))
    IN  planType = sEmpty \/ planType = sMONTHLY

matchesTargetPlan(sub, normalizedTargets) ==
    IF ~isMonthlyPlan(sub) THEN FALSE
    ELSE IF normalizedTargets = {} THEN TRUE
    ELSE \/ normalizePlanIdentifier(sub.SubscriptionName) \in normalizedTargets
         \/ normalizePlanIdentifier(sub.PlanSubscriptionName) \in normalizedTargets

sProMax       == <<"P","R","O","M","A","X">>
sProMaxDash   == <<"P","r","o","-","M","a","x">>
sProMaxSpaced == <<"p","r","o"," ","m","a","x">>
sMonthlyPadded == <<" ","m","o","n","t","h","l","y"," ">>
sBlank        == <<" ">>

\* input domains of the matching specification
MatchNames     == {sPRO, sProMax, sProMaxDash, sPAYGO}
MatchPlanNames == {sPRO, sProMaxSpaced, sPAYGO}
MatchPlanTypes == {sMONTHLY, sMonthlyPadded, sEmpty, sPAY_PER_USE, sPayPerUseLow, sYEARLY}
MatchTargets   ==
    {<<>>, <<sBlank>>, <<sProLower>>, <<sProMaxSpaced>>, <<sProMax>>,
     <<sProPadded, sProMaxDash>>, <<sPaygoLower>>}

\* the subscription is given to FilterSubscriptions as a list of one
MatchFilter ==
    /\ qpc = "input"
    /\ qKept = <<>>
    /\ qKept' = <<FilterSubscriptions(<<qSub>>, qPolicy) # <<>>>>
    /\ UNCHANGED <<qpc, qSub, qPolicy, qMatch>>
    /\ UNCHANGED matchFrame

\* the subscription is given to matchesTargetPlan with the set built from
\* the same target names
MatchClient ==
    /\ qpc = "input"
    /\ qMatch = <<>>
    /\ qMatch' = <<matchesTargetPlan(qSub, buildTargetPlanSet(qPolicy.TargetPlans))>>
    /\ UNCHANGED <<qpc, qSub, qPolicy, qKept>>
    /\ UNCHANGED matchFrame

MatchIdle ==
    /\ qpc = "off"
    /\ qSub = NoSub
    /\ qPolicy = <<>>
    /\ qKept = <<>>
    /\ qMatch = <<>>

MatchInit ==
    /\ qpc = "input"
    /\ qSub \in { MkSub(1, n, p, t, 0, 0, 0) :
                    n \in MatchNames, p \in MatchPlanNames, t \in MatchPlanTypes }
    /\ qPolicy \in [TargetPlans : MatchTargets, RequireMonthly : BOOLEAN]
    /\ qKept = <<>>
    /\ qMatch = <<>>

MatchNext ==
    \/ MatchFilter
    \/ MatchClient

(***************************************************************************)
(* internal/app: App.Run                                                   *)
(***************************************************************************)
\* bound of the application specification: configured API keys
MaxKeys == 4

\* a.Config.Mode; "bogus" stands for every mode Run does not know
AppModes == {"list", "test", "run", "manual", "bogus"}

\* mode `run` going to the single-account scheduler whatever the key count
RunModePath_AlwaysSingle(keys) == "single"

\* case "run": one key is the single-account mode, more are the multi-account
RunModePath(keys) == IF keys = 1 THEN "single" ELSE "multi"

\* Run: the missing-key check and the switch on the mode
AppRun ==
    /\ apc = "start"
    /\ IF aKeys = 0 /\ aMode # "list"
       THEN apc' = "returned" /\ aErr' = TRUE /\ UNCHANGED aPath
       ELSE IF aMode \in {"list", "test", "manual"}
       THEN apc' = aMode /\ aPath' = aMode /\ UNCHANGED aErr
       ELSE IF aMode = "run"
       THEN /\ apc' = RunModePath(aKeys)
            /\ aPath' = RunModePath(aKeys)
            /\ UNCHANGED aErr
       ELSE apc' = "returned" /\ aErr' = TRUE /\ UNCHANGED aPath
    /\ UNCHANGED <<aMode, aKeys, aSched, aActive, aAccounts, aResets>>
    /\ UNCHANGED appFrame

\* runListMode: the stored accounts are printed
AppList ==
    /\ apc = "list"
    /\ apc' = "returned"
    /\ aErr' \in BOOLEAN
    /\ UNCHANGED <<aMode, aKeys, aPath, aSched, aActive, aAccounts, aResets>>
    /\ UNCHANGED appFrame

\* runTestMode: connection test and two read-only fetches
AppTest ==
    /\ apc = "test"
    /\ apc' = "returned"
    /\ aErr' \in BOOLEAN
    /\ UNCHANGED <<aMode, aKeys, aPath, aSched, aActive, aAccounts, aResets>>
    /\ UNCHANGED appFrame

\* runSchedulerMode: the scheduler is created and started, or creation fails
AppSingle ==
    /\ apc = "single"
    /\ apc' = "returned"
    /\ \/ aErr' = TRUE /\ UNCHANGED aSched
       \/ aErr' = FALSE /\ aSched' = "single"
    /\ UNCHANGED <<aMode, aKeys, aPath, aActive, aAccounts, aResets>>
    /\ UNCHANGED appFrame

\* runMultiAccountMode: the accounts are synchronized and the active ones
\* among the keys are fetched; an error or no active account ends the run
AppSync ==
    /\ apc = "multi"
    /\ \/ /\ apc' = "returned"
          /\ aErr' = TRUE
          /\ UNCHANGED aActive
       \/ \E act \in SUBSET (1..aKeys) :
             /\ aActive' = act
             /\ IF act = {}
                THEN apc' = "returned" /\ aErr' = TRUE
                ELSE apc' = "multi_start" /\ UNCHANGED aErr
    /\ UNCHANGED <<aMode, aKeys, aPath, aSched, aAccounts, aResets>>
    /\ UNCHANGED appFrame

\* runMultiScheduler(a, activeAccounts): created and started, or creation fails
AppMultiStart ==
    /\ apc = "multi_start"
    /\ apc' = "returned"
    /\ \/ aErr' = TRUE /\ UNCHANGED <<aSched, aAccounts>>
       \/ aErr' = FALSE /\ aSched' = "multi" /\ aAccounts' = aActive
    /\ UNCHANGED <<aMode, aKeys, aPath, aActive, aResets>>
    /\ UNCHANGED appFrame

\* runManualMode on the first key: it ends before or after its reset call
AppManual ==
    /\ apc = "manual"
    /\ apc' = "returned"
    /\ \/ aErr' = TRUE /\ UNCHANGED aResets
       \/ aErr' \in BOOLEAN /\ aResets' = aResets + 1
    /\ UNCHANGED <<aMode, aKeys, aPath, aSched, aActive, aAccounts>>
    /\ UNCHANGED appFrame

AppIdle ==
    /\ apc = "off"
    /\ aMode = ""
    /\ aKeys = 0
    /\ aPath = "none"
    /\ aSched = "none"
    /\ aActive = {}
    /\ aAccounts = {}
    /\ aErr = FALSE
    /\ aResets = 0

AppInit ==
    /\ apc = "start"
    /\ aMode \in AppModes
    /\ aKeys \in 0..MaxKeys
    /\ aPath = "none"
    /\ aSched = "none"
    /\ aActive = {}
    /\ aAccounts = {}
    /\ aErr = FALSE
    /\ aResets = 0

AppNext ==
    \/ AppRun
    \/ AppList
    \/ AppTest
    \/ AppSingle
    \/ AppSync
    \/ AppMultiStart
    \/ AppManual

(***************************************************************************)
(* internal/scheduler: a day of loopController.run with checkAndExecute    *)
(* and executeReset behind it                                              *)
(***************************************************************************)
FirstResetHour    == 18
FirstResetMinute  == 50
SecondResetHour   == 23
SecondResetMinute == 55

\* bounds of the day specification: the slices a minute is cut into, the
\* slices a subscription check can take and the minutes a run can take
SlicesPerMinute == 2
MaxRefreshTime  == 1
MaxRunTime      == 6

DayModes == {"single", "multi"}

\* the instant hh:mm:00, in slices
Clock(h, m) == (h * 60 + m) * SlicesPerMinute

\* launches considered: from two minutes before the first mark up to it
DayStart == Clock(FirstResetHour, FirstResetMinute - 2)
DayLaunch == Clock(FirstResetHour, FirstResetMinute + 1) - 1

\* no tick is followed after the minute that follows the second mark
DayEnd == Clock(SecondResetHour, SecondResetMinute + 2) - 1

\* now.Hour(), now.Minute()
Hour(t) == (t \div SlicesPerMinute) \div 60
Minute(t) == (t \div SlicesPerMinute) % 60

NoMark == <<>>

\* the trigger whose hour and minute the instant has
MarkOf(t) ==
    IF Hour(t) = FirstResetHour /\ Minute(t) = FirstResetMinute THEN sFirst
    ELSE IF Hour(t) = SecondResetHour /\ Minute(t) = SecondResetMinute THEN sSecond
    ELSE NoMark

\* alignSlot of an instant, in minutes
DaySlot(t) == alignSlot(t \div SlicesPerMinute)

\* time.Since(*last) < MinResetInterval
TooSoon(last, t) ==
    /\ last # NoTimestamp
    /\ t - last[1] < MinResetInterval * SlicesPerMinute

\* the interval check: Scheduler.executeReset compares a `second` trigger
\* with the last `first`, MultiScheduler.executeResetForAccount compares a
\* trigger with the last one of its own kind
DayGateBlocks(m, st, kind, t) ==
    IF m = "single"
    THEN kind = sSecond /\ TooSoon(st.LastFirstResetTime, t)
    ELSE TooSoon(IF kind = sFirst THEN st.LastFirstResetTime
                 ELSE st.LastSecondResetTime, t)

\* the status a completed day before left behind
LeftByYesterday ==
    [initializeStatus(DayStart \div SlicesPerMinute - DayMinutes) EXCEPT
        !.FirstResetToday = TRUE,
        !.SecondResetToday = TRUE,
        !.LastFirstResetTime =
            <<Clock(FirstResetHour, FirstResetMinute) - DayMinutes * SlicesPerMinute>>,
        !.LastSecondResetTime =
            <<Clock(SecondResetHour, SecondResetMinute) - DayMinutes * SlicesPerMinute>>,
        !.LastResetSuccess = TRUE]

\* time.NewTicker after the initial check; later the ticker keeps its phase
TickerAfter(c) == IF dNextTick = 0 THEN c + SlicesPerMinute ELSE dNextTick

\* a check is kept in the log when its tick or its own instant is at a mark
Logged(e) ==
    IF (e.tick # <<>> /\ MarkOf(e.tick[1]) # NoMark) \/ MarkOf(e.at) # NoMark
    THEN Append(dLog, e) ELSE dLog

dayCfg == <<dMode, dEnableFirst>>

\* the first trigger run whether it is enabled or not
FirstDisabled_Never(k) == FALSE

\* if !s.enableFirstReset, in the branch of the first mark
FirstDisabled(k) == k = sFirst /\ ~dEnableFirst

\* run is entered: subscriptionCheck(), the slot of the time it returned at
DayEnter ==
    /\ dPc = "new"
    /\ \E d \in 0..MaxRefreshTime : dClock' = dClock + d
    /\ dLastSlot' = DaySlot(dClock')
    /\ dRemote' = dRemote + 1
    /\ dTick' = <<>>
    /\ dPc' = "check"
    /\ UNCHANGED <<dayCfg, dNextTick, dStatusFile, dStatus, dKind, dLocks, dLog>>
    /\ UNCHANGED dayFrame

\* case <-ticker.C: the tick is received when it fires, or on the return of
\* the handler that was running when it fired (the ticker keeps one tick and
\* drops the others); a new slot is refreshed first
DayTick ==
    /\ dPc = "wait"
    /\ dNextTick <= DayEnd
    /\ LET rcv  == IF dClock > dNextTick THEN dClock ELSE dNextTick
           slot == DaySlot(rcv)
       IN  /\ dTick' = <<dNextTick>>
           /\ dNextTick' = dNextTick
                  + SlicesPerMinute * ((rcv - dNextTick) \div SlicesPerMinute + 1)
           /\ IF SlotAfter(slot, dLastSlot)
              THEN /\ \E d \in 0..MaxRefreshTime : dClock' = rcv + d
                   /\ dLastSlot' = slot
                   /\ dRemote' = dRemote + 1
              ELSE /\ dClock' = rcv
                   /\ UNCHANGED <<dLastSlot, dRemote>>
    /\ dPc' = "check"
    /\ UNCHANGED <<dayCfg, dStatusFile, dStatus, dKind, dLocks, dLog>>
    /\ UNCHANGED dayFrame

\* checkAndExecute, and executeReset / executeResetForAccount up to the call
\* of runner.Execute
DayCheck ==
    /\ dPc = "check"
    /\ LET k  == MarkOf(dClock)
           e  == [tick |-> dTick, at |-> dClock, kind |-> k, path |-> "none"]
           st == LoadStatus(dStatusFile, dClock \div SlicesPerMinute)
       IN  IF k = NoMark \/ FirstDisabled(k)
           THEN /\ dLog' = Logged([e EXCEPT !.kind = NoMark])
                /\ dPc' = "wait"
                /\ dNextTick' = TickerAfter(dClock)
                /\ UNCHANGED <<dStatus, dKind, dLocks>>
           ELSE /\ dLocks' = IF dMode = "single" THEN dLocks + 1 ELSE dLocks
                /\ dStatus' = st
                /\ dKind' = k
                /\ IF AlreadyRan(st, k)
                   THEN /\ dLog' = Logged([e EXCEPT !.path = "ran_today"])
                        /\ dPc' = "wait"
                        /\ dNextTick' = TickerAfter(dClock)
                   ELSE IF DayGateBlocks(dMode, st, k, dClock)
                   THEN /\ dLog' = Logged([e EXCEPT !.path = "gate"])
                        /\ dPc' = "wait"
                        /\ dNextTick' = TickerAfter(dClock)
                   ELSE /\ dLog' = Logged([e EXCEPT !.path = "execute"])
                        /\ dPc' = "run"
                        /\ UNCHANGED dNextTick
    /\ UNCHANGED <<dayCfg, dClock, dTick, dLastSlot, dStatusFile, dRemote>>
    /\ UNCHANGED dayFrame

\* the time runner.Execute takes, in minutes
RunTimes == {0, MaxRunTime}

\* runner.Execute returns; the outcome is recorded with the time of the
\* return and the status is saved
DayRun ==
    /\ dPc = "run"
    /\ \E d \in RunTimes, o \in Outcomes(1) :
          /\ dClock' = dClock + d * SlicesPerMinute
          /\ dStatusFile' =
                <<StampStatus(Record(dMode, dStatus, dKind, o, dClock'), dClock')>>
    /\ dRemote' = dRemote + 1
    /\ dPc' = "wait"
    /\ dNextTick' = TickerAfter(dClock')
    /\ UNCHANGED <<dayCfg, dTick, dLastSlot, dStatus, dKind, dLocks, dLog>>
    /\ UNCHANGED dayFrame

\* case <-l.ctx.Done(): Stop was called
DayStop ==
    /\ dPc = "wait"
    /\ dPc' = "stopped"
    /\ UNCHANGED <<dayCfg, dClock, dNextTick, dTick, dLastSlot, dStatusFile,
                   dStatus, dKind, dLocks, dRemote, dLog>>
    /\ UNCHANGED dayFrame

DayIdle ==
    /\ dMode = "single"
    /\ dEnableFirst = FALSE
    /\ dClock = 0
    /\ dNextTick = 0
    /\ dPc = "off"
    /\ dTick = <<>>
    /\ dLastSlot = 0
    /\ dStatusFile = <<>>
    /\ dStatus = initializeStatus(0)
    /\ dKind = NoMark
    /\ dLocks = 0
    /\ dRemote = 0
    /\ dLog = <<>>

\* the scheduler is started shortly before the first mark or in its minute,
\* on a first day or after a completed one
DayInit ==
    /\ dMode \in DayModes
    /\ dEnableFirst \in BOOLEAN
    /\ dClock \in DayStart..DayLaunch
    /\ dNextTick = 0
    /\ dPc = "new"
    /\ dTick = <<>>
    /\ dLastSlot = 0
    /\ dStatusFile \in {<<>>, <<LeftByYesterday>>}
    /\ dStatus = initializeStatus(0)
    /\ dKind = NoMark
    /\ dLocks = 0
    /\ dRemote = 0
    /\ dLog = <<>>

DayNext ==
    \/ DayEnter
    \/ DayTick
    \/ DayCheck
    \/ DayRun
    \/ DayStop

\* the parts added for the other specifications are unused
ExtIdle == StopIdle /\ SaveIdle /\ ManIdle /\ StartIdle /\ MatchIdle /\ AppIdle /\ DayIdle

(***************************************************************************)
(* Properties of the executor                                              *)
(***************************************************************************)
\* a subscription has been processed; sub0, hist, posts describe LastResult
Finished == pc \in {"loop", "done"} /\ results # <<>>

LastResult == results[Len(results)]

Success(r) == r.Err = NoErr /\ ~r.Skipped

ThresholdSkipped(r) == r.Skipped /\ r.SkipReason = "threshold"

\* the pay-per-use marker, matched case-insensitively on any of the three fields
MarkerMatch(sub) ==
    \/ EqualFold(sub.SubscriptionName, sPAYGO)
    \/ EqualFold(sub.PlanSubscriptionName, sPAYGO)
    \/ EqualFold(sub.PlanType, sPAYGO)
    \/ EqualFold(sub.PlanType, sPAY_PER_USE)

\* the balance rule as specified: the selected mode's threshold against
\* credits / limit * 100, no rule when the limit is not positive
BalanceOverThreshold(sub, o) ==
    /\ sub.CreditLimit > 0
    /\ IF o.UseMaxThreshold
       THEN /\ o.CreditThresholdMax > 0
            /\ sub.CurrentCredits * 100 > o.CreditThresholdMax * sub.CreditLimit
       ELSE /\ o.CreditThresholdMin > 0
            /\ sub.CurrentCredits * 100 >= o.CreditThresholdMin * sub.CreditLimit

\* C1: with trigger kind `second` no subscription is ever skipped because of
\* its balance, whatever the threshold mode and value.
C1_SecondNeverSkipsOnBalance ==
    opts.ResetType = sSecond =>
        \A i \in 1..Len(results) : ~ThresholdSkipped(results[i])

\* C2: a reset request is never sent for a subscription that the listing made
\* just before the request shows as pay-per-use (marker matched case-insensitively).
C2_NoRequestForPayPerUse ==
    lastPost.status = "ok" => ~MarkerMatch(lastPost.sub)

\* C3: the filter output holds no subscription matching the pay-per-use marker,
\* for every policy, allow-list and RequireMonthly setting.
C3_FilterExcludesPayPerUse ==
    fpc = "filtered" => \A i \in 1..Len(fOut) : ~MarkerMatch(fOut[i])

\* C3 witness: a marker-matching subscription named by the allow-list, with
\* RequireMonthly off, was filtered out while another subscription was kept.
C3_Witness ==
    /\ fpc = "filtered"
    /\ ~fFilter.RequireMonthly
    /\ \E i \in 1..Len(fSubs) :
        /\ MarkerMatch(fSubs[i])
        /\ ToLower(fSubs[i].SubscriptionName) \in TargetNames(fFilter)
        /\ ToUpper(fSubs[i].PlanType) = sMONTHLY
    /\ Len(fOut) < Len(fSubs)

\* C4: a success result means that the fetch of its last attempt showed more
\* credits and fewer resets than that attempt's baseline.
C4_SuccessOnlyIfVerified ==
    (Finished /\ Success(LastResult)) =>
        /\ hist # <<>>
        /\ LastAttempt.call = "ack"
        /\ LastAttempt.fetch = "ok"
        /\ LastAttempt.fc > LastAttempt.bc
        /\ LastAttempt.fr < LastAttempt.br
        /\ LastResult.AfterCredits = LastAttempt.fc
        /\ LastResult.AfterResets = LastAttempt.fr

\* C4 witness: a success, and before it an acknowledged attempt that left the
\* ledger unchanged and was not taken for a success.
C4_Witness ==
    /\ Finished
    /\ Success(LastResult)
    /\ Len(hist) = 2
    /\ hist[1].eff = "never"

\* C5: in one run at most one reset takes effect per subscription, and a
\* subscription reported as success has consumed exactly one reset count.
C5_AtMostOneResetTakesEffect ==
    /\ \A id \in 1..Len(effects) : effects[id] <= 1
    /\ (Finished /\ Success(LastResult)) => effects[LastResult.Subscription.ID] = 1

\* C6: attempt 1 acknowledged without effect, attempt 2 verified against the
\* state fetched after attempt 1: success, attempts = 2, before-values are
\* those fetched after attempt 1.
C6_RetryConvergence ==
    ( /\ Finished
      /\ Len(hist) = 2
      /\ hist[1].eff = "never"
      /\ hist[2].fetch = "ok"
      /\ hist[2].fc > hist[1].fc
      /\ hist[2].fr < hist[1].fr ) =>
        /\ Success(LastResult)
        /\ LastResult.Attempts = 2
        /\ LastResult.BeforeCredits = hist[1].fc
        /\ LastResult.BeforeResets = hist[1].fr

\* C6 witness: such a run in which the state fetched after attempt 1 differs
\* from the original snapshot.
C6_Witness ==
    /\ Finished
    /\ Len(hist) = 2
    /\ hist[1].eff = "never"
    /\ hist[2].eff = "now"
    /\ Success(LastResult)
    /\ hist[1].fc # sub0.CurrentCredits

\* attempt k was a verification mismatch that leaves the subscription eligible
Mismatch(k) ==
    /\ hist[k].call = "ack"
    /\ hist[k].fetch = "ok"
    /\ ~(hist[k].fc > hist[k].bc /\ hist[k].fr < hist[k].br)
    /\ hist[k].fr >= minRequiredResetTimes(opts)

\* C7: an error of the reset call or of the verification fetch in attempt k
\* ends the subscription as a failure with attempts = k and no further call;
\* only a mismatch on attempt 1 is followed by another attempt, exactly one.
C7_ErrorsEndProcessing ==
    /\ Len(hist) <= 2
    /\ \A k \in 1..Len(hist) :
        (hist[k].call \in {"err", "rejected"} \/ hist[k].fetch = "err") =>
            /\ k = Len(hist)
            /\ Finished
            /\ LastResult.Err # NoErr
            /\ LastResult.Attempts = k
            /\ posts[LastResult.Subscription.ID] <= k
    /\ Len(hist) = 2 => Mismatch(1)
    /\ (Finished /\ hist # <<>> /\ Mismatch(1)) => Len(hist) = 2

\* C7 witness: a reset call failed on attempt 2, after a mismatch on attempt 1.
C7_Witness ==
    /\ Finished
    /\ Len(hist) = 2
    /\ hist[2].call = "err"
    /\ LastResult.Attempts = 2

C9_FirstThresholdRule ==
    (Finished /\ opts.ResetType = sFirst) =>
        (ThresholdSkipped(LastResult) <=> BalanceOverThreshold(sub0, opts))

\* C9 witness: ceiling mode, balance exactly at the cap, not skipped on balance.
C9_Witness ==
    /\ Finished
    /\ opts.ResetType = sFirst
    /\ opts.UseMaxThreshold
    /\ opts.CreditThresholdMax > 0
    /\ sub0.CreditLimit > 0
    /\ sub0.CurrentCredits * 100 = opts.CreditThresholdMax * sub0.CreditLimit
    /\ ~LastResult.Skipped

(***************************************************************************)
(* Properties of the run lock                                              *)
(***************************************************************************)
Holds(c) == lpc[c] = "held"

\* C10: two acquisitions both succeed only if they are at least the staleness
\* window apart (the later one overrode a stale lock); within the window
\* exactly one of two concurrent acquisitions holds the lock.
C10_LockMutualExclusion ==
    \A c1, c2 \in Callers :
        (c1 # c2 /\ Holds(c1) /\ Holds(c2)) =>
            \/ startTime[c1] - startTime[c2] >= StaleMinutes
            \/ startTime[c2] - startTime[c1] >= StaleMinutes

InitFilter == FilterInit /\ ExecIdle /\ LockIdle /\ SchedIdle /\ ExtIdle

InitExec == ExecInit /\ FilterIdle /\ LockIdle /\ SchedIdle /\ ExtIdle

InitExecFair == FairInit /\ FilterIdle /\ LockIdle /\ SchedIdle /\ ExtIdle

InitBatch == BatchInit /\ FilterIdle /\ LockIdle /\ SchedIdle /\ ExtIdle

InitReclaim == ReclaimInit /\ FilterIdle /\ ExecIdle /\ SchedIdle /\ ExtIdle

InitPlanChange == PlanInit /\ FilterIdle /\ LockIdle /\ SchedIdle /\ ExtIdle

InitLock == LockInit /\ FilterIdle /\ ExecIdle /\ SchedIdle /\ ExtIdle

(***************************************************************************)
(* Properties of the triggers                                              *)
(***************************************************************************)
\* the run has loaded the status and has not yet saved it
InStatusSection(r) == tpc[r] \in {"execute", "record"}

\* neither run had returned when the other started
Overlapping(r1, r2) == r1 # r2 /\ r1 \notin before[r2] /\ r2 \notin before[r1]

\* runner.Execute of the run sent at least one reset request
Issued(r) ==
    \E i \in 1..Len(outcome[r].results) : outcome[r].results[i].Attempts > 0

\* C11: in both modes a trigger holds the run lock from before it loads the
\* account's status until it has saved it, so two overlapping triggers of
\* the same kind for the account never both issue resets.
C11_RunLockBracketsStatus ==
    /\ \A r \in Runs : InStatusSection(r) => Holds(r)
    /\ \A r1, r2 \in Runs :
          (Overlapping(r1, r2) /\ tkind[r1] = tkind[r2]) => ~(Issued(r1) /\ Issued(r2))

\* every exit path of a run that held the lock
ExitPaths ==
    {"load_error", "ran_today", "gate", "listing_error", "no_match", "completed"}

\* the run took the lock and has returned
ReturnedWithLock(r) == mode = "single" /\ tpc[r] = "done" /\ path[r] # "locked"

\* C12: a trigger execution that acquired the run lock has released it when
\* it returns, on every exit path: status-load failure, already ran today,
\* interval gate, listing error, no eligible subscription, normal completion.
C12_LockReleasedOnEveryPath ==
    \A r \in Runs :
        ReturnedWithLock(r) =>
            /\ path[r] \in ExitPaths
            /\ lpc[r] = "released"
            /\ ~(lockFile.exists /\ lockFile.pid = r)

\* a run has returned on an early exit path and its lock is gone
C12_Witness ==
    \E r \in Runs :
        /\ ReturnedWithLock(r)
        /\ path[r] \in {"load_error", "ran_today", "gate"}
        /\ lpc[r] = "released"
        /\ ~lockFile.exists

\* r2 is a repeat of r1's trigger check: r1 had returned when r2 started, both
\* are of one kind and load the status on the same calendar day, and r1's
\* save, if it came to one, succeeded
RepeatedCheck(r1, r2) ==
    /\ r1 \in before[r2]
    /\ tkind[r1] = tkind[r2]
    /\ Today(loadAt[r1]) = Today(loadAt[r2])
    /\ path[r1] \in {"listing_error", "no_match", "completed"} => saved[r1] # <<>>

\* C13: when the check of one trigger kind runs more than once on the same
\* calendar day for an account and status saves succeed, reset requests are
\* issued in at most one of the runs.
C13_OneRunIssuesResets ==
    \A r1, r2 \in Runs :
        RepeatedCheck(r1, r2) => ~(Issued(r1) /\ Issued(r2))

\* the first run issued resets and saved; the repeat was stopped by the flag
C13_Witness ==
    \E r1, r2 \in Runs :
        /\ RepeatedCheck(r1, r2)
        /\ Issued(r1)
        /\ saved[r1] # <<>>
        /\ tpc[r2] = "done"
        /\ path[r2] = "ran_today"

\* the exit paths of a run that got past the already-ran and interval checks
RecordedPaths == {"listing_error", "no_match", "completed"}

\* the ran-today flag and the timestamp of a trigger kind
FlagOf(st, kind) == IF kind = sFirst THEN st.FirstResetToday ELSE st.SecondResetToday

StampOf(st, kind) ==
    IF kind = sFirst THEN st.LastFirstResetTime ELSE st.LastSecondResetTime

\* the status on disk carries the run's flag and the timestamp of the run
MarkedOnDisk(r) ==
    /\ statusFile # <<>>
    /\ FlagOf(statusFile[1], tkind[r])
    /\ StampOf(statusFile[1], tkind[r]) = <<loadAt[r]>>

\* C14 as stated: every trigger execution that gets past the already-ran
\* check and the interval gate ends with the trigger's ran-today flag set and
\* its timestamp updated in the saved status, whatever the outcome.
C14_FlagAlwaysSaved ==
    (tpc[1] = "done" /\ path[1] \in RecordedPaths) => MarkedOnDisk(1)

\* C14, amended: the same, provided the save of the status succeeds; the
\* status in memory carries the flag and the timestamp in any case.
C14_FlagSavedWhenSaveSucceeds ==
    (tpc[1] = "done" /\ path[1] \in RecordedPaths) =>
        /\ FlagOf(status[1], tkind[1])
        /\ StampOf(status[1], tkind[1]) = <<loadAt[1]>>
        /\ saved[1] # <<>> => (statusFile = saved[1] /\ MarkedOnDisk(1))

\* a run that ended in a listing error saved the flag and the timestamp
C14_Witness ==
    /\ tpc[1] = "done"
    /\ path[1] = "listing_error"
    /\ saved[1] # <<>>
    /\ MarkedOnDisk(1)

\* the run has loaded the status
Loaded(r) == loadAt[r] # 0

\* the status as the run's load returned it
LoadedStatus(r) == LoadStatus(src[r], loadAt[r])

\* a `second` run that has not run today and finds a stored first timestamp
SecondAfterFirst(r) ==
    /\ tkind[r] = sSecond
    /\ Loaded(r)
    /\ ~LoadedStatus(r).SecondResetToday
    /\ LoadedStatus(r).LastFirstResetTime # NoTimestamp

SinceFirst(r) == loadAt[r] - LoadedStatus(r).LastFirstResetTime[1]

\* C15: in both modes a `second` trigger less than the minimum gap after the
\* stored first timestamp calls nothing and leaves the second flag and
\* timestamp as they were; at or beyond the gap the gate does not block it.
C15_SecondGate ==
    SecondAfterFirst(1) =>
        IF SinceFirst(1) < MinResetInterval
        THEN /\ tpc[1] \in {"exit", "done"}
             /\ path[1] = "gate"
             /\ statusFile = src[1]
        ELSE path[1] # "gate"

\* the run's status is still as its load returned it
JustLoaded(r) ==
    /\ Loaded(r)
    /\ \/ tpc[r] = "execute"
       \/ tpc[r] \in {"exit", "done"} /\ path[r] \in {"ran_today", "gate"}

\* the fields the store does not treat as day-scoped
KeptFields ==
    {"LastCheckTime", "LastFirstResetTime", "LastSecondResetTime", "LastResetSuccess",
     "LastResetMessage", "ConsecutiveFailures"}

\* C16: loading a status stored on another date returns it with both
\* ran-today flags and the per-trigger counts and balances cleared and the
\* date set to today, the failure count and the other fields unchanged;
\* loading a status stored today changes no field.
C16_DayRollover ==
    \A r \in Runs :
        (JustLoaded(r) /\ src[r] # <<>>) =>
            LET stored == src[r][1]
                st     == status[r]
            IN  IF stored.TodayDate # Today(loadAt[r])
                THEN /\ st.TodayDate = Today(loadAt[r])
                     /\ ~st.FirstResetToday
                     /\ ~st.SecondResetToday
                     /\ st.ResetTimesBeforeReset = 0
                     /\ st.ResetTimesAfterReset = 0
                     /\ st.CreditsBeforeReset = 0
                     /\ st.CreditsAfterReset = 0
                     /\ \A f \in KeptFields : st[f] = stored[f]
                ELSE st = stored

\* a status of the previous day with flags, counts and failures was loaded
C16_Witness ==
    \E r \in Runs :
        /\ JustLoaded(r)
        /\ src[r] # <<>>
        /\ src[r][1].TodayDate # Today(loadAt[r])
        /\ src[r][1].FirstResetToday
        /\ src[r][1].ResetTimesBeforeReset > 0
        /\ src[r][1].ConsecutiveFailures > 0
        /\ status[r].ConsecutiveFailures > 0

\* the run has recorded its outcome in status[r]
Recorded(r) == tpc[r] \in {"exit", "done"} /\ path[r] \in RecordedPaths

\* the listing failed or a subscription ended with an error
HadFailure(r) ==
    \/ outcome[r].err
    \/ \E i \in 1..Len(outcome[r].results) : outcome[r].results[i].Err # NoErr

\* C17: after a run is recorded the failure count is the previous value plus
\* one if the run had a failure (listing error or an error on any
\* subscription) and zero if its outcome was success, in both modes alike.
C17_ConsecutiveFailures ==
    Recorded(1) =>
        status[1].ConsecutiveFailures =
            IF HadFailure(1) THEN LoadedStatus(1).ConsecutiveFailures + 1 ELSE 0

\* the stored message reports a failure
MessageIsFailure(st) == st.LastResetMessage # NoMessage /\ st.LastResetMessage[1] = "error"

\* C18: after a run over several subscriptions the saved success flag and
\* message describe the same, latest outcome: the flag is true only if the
\* outcome the stored message reports is not a failure.
C18_FlagMatchesMessage ==
    (Recorded(1) /\ Len(outcome[1].results) > 0 /\ saved[1] # <<>>) =>
        (saved[1][1].LastResetSuccess => ~MessageIsFailure(saved[1][1]))

(***************************************************************************)
(* Properties of the fan-out and of the loop                               *)
(***************************************************************************)
\* the aggregate is reported only when all units have finished, and then
\* it counts every unit once
ReportCountsEveryUnit ==
    reported # <<>> =>
        /\ \A u \in Units : upc[u] = "finished"
        /\ reported[1] = Cardinality({u \in Units : unitOK[u]})
        /\ reported[2] = Cardinality({u \in Units : ~unitOK[u]})
        /\ reported[1] + reported[2] = NumAccounts

\* C19: every account's unit runs to completion whatever the others do, the
\* aggregate is reported only after all units have finished, and then
\* successCount + failCount is the number of accounts, no update lost.
C19_AllUnitsCounted == []ReportCountsEveryUnit /\ <>(cpc = "reported")

\* the aggregate was reported after units of both results
C19_Witness ==
    /\ cpc = "reported"
    /\ reported[1] > 0
    /\ reported[2] > 0
    /\ reported[1] + reported[2] = NumAccounts

\* C20 as stated: a tick refreshes the inventory only if the refresh interval
\* has elapsed since the previous refresh, so no two refreshes, the initial
\* one included, are closer together than the interval.
C20_RefreshesIntervalApart ==
    \A i \in 1..(Len(refreshes) - 1) :
        refreshes[i + 1] - refreshes[i] >= SubscriptionCheckInterval

\* C20, amended: a tick refreshes the inventory only if its time lies in a
\* later interval-aligned slot than the slot recorded at the previous
\* refresh, so no two refreshes, the initial one included, fall in one slot.
C20_OneRefreshPerSlot ==
    /\ \A i \in 1..(Len(refreshes) - 1) :
          alignSlot(refreshes[i]) < alignSlot(refreshes[i + 1])
    /\ refreshes # <<>> => alignSlot(refreshes[Len(refreshes)]) <= lastSubscriptionSlot

\* a tick refreshed in the next slot, less than the interval after the
\* initial refresh
C20_Witness ==
    /\ Len(refreshes) >= 2
    /\ refreshes[2] - refreshes[1] < SubscriptionCheckInterval
    /\ alignSlot(refreshes[1]) < alignSlot(refreshes[2])

(***************************************************************************)
(* Properties of stopping                                                  *)
(***************************************************************************)
\* every tick handler that was begun has run to its end
NoHandlerInterrupted == rpc = "returned" => entered = handled

\* C21: cancellation takes effect only between ticks: a Stop call does not
\* interrupt the tick being handled, and once Stop has been called no later
\* tick starts a new inventory refresh or trigger check.
C21_StopOnlyBetweenTicks ==
    /\ NoHandlerInterrupted
    /\ lateStarts = 0

\* C22: Stop is idempotent: every call, the first or a later one, before
\* Start, while running or after the loop has exited, leaves the context
\* cancelled and the log buffer flushed and changes nothing else of the loop.
C22_StopIdempotent ==
    [][stops' = stops + 1 =>
          /\ ctxDone'
          /\ logBuffer' = 0
          /\ rpc' = rpc
          /\ tickReady' = tickReady
          /\ stops >= 1 => ctxDone' = ctxDone]_vars

\* Stop was called again after the loop had exited, having been called
\* while a tick was being handled
C22_Witness ==
    /\ stops >= 2
    /\ ctxDone
    /\ {"handling", "returned"} \subseteq stoppedIn
    /\ rpc = "returned"

(***************************************************************************)
(* Properties of saving                                                    *)
(***************************************************************************)
\* nothing or a whole content
Whole(c) == ~c.exists \/ c.len = MaxChunks

\* C23: a write is atomic: whenever the process may crash during a save, the
\* target holds the complete previous content or the complete new content,
\* never a partial one.
C23_AtomicSave ==
    /\ \A f \in SaveTargets : Whole(files[<<f>>])
    /\ saves > 0 => files[<<dest>>] \in {prevTarget, Content(saves, MaxChunks)}

\* a crash hit a save while the temporary file was partly written, and the
\* target still holds the previous content
C23_Witness ==
    /\ crashes > 0
    /\ spc = "idle"
    /\ files[<<dest, ".tmp">>].exists
    /\ files[<<dest, ".tmp">>].len < MaxChunks
    /\ files[<<dest, ".tmp">>].len > 0
    /\ files[<<dest>>] = prevTarget
    /\ prevTarget.exists

(***************************************************************************)
(* Properties of the manual mode                                           *)
(***************************************************************************)
\* the manual run has ended
ManualDone == mpc = "done"

\* the reset was acknowledged and the subscription fetched afterwards shows
\* no change
ManualUnverified ==
    /\ mNote = "acknowledged"
    /\ mAfter # <<>>
    /\ ~(mAfter[1].CurrentCredits > mSub.CurrentCredits
          /\ mAfter[1].ResetTimes < mSub.ResetTimes)
    /\ mAfter[1].ResetTimes >= minRequiredResetTimes(mCfg)

\* C24: a manual run differs from a scheduled trigger only in skipping the
\* time-of-day check: a subscription the threshold or the reset count skips
\* is sent no reset, an acknowledged reset that is not verified is sent a
\* second time, and a run that sent a reset updates the execution status.
C24_ManualLikeScheduled ==
    ManualDone =>
        /\ (mSub # NoSub /\ (shouldSkipByThreshold(mSub, mCfg)
                              \/ shouldSkipByResetTimes(mSub, mCfg)))
               => mPosts = 0
        /\ ManualUnverified => mPosts = 2
        /\ mPosts > 0 => mStatusFile # <<>> /\ mStatusFile[1].TodayDate = Today(DayMinutes)

(***************************************************************************)
(* Properties of the start-up                                              *)
(***************************************************************************)
InvalidTimezone == sCfg.tz # "" /\ sCfg.tz \notin KnownZones

\* a percentage that is no number or lies outside 0..100
InvalidPercent(s) == s.present /\ (~s.number \/ s.value < 0 \/ s.value > 100)

InvalidThresholds ==
    \/ sCfg.cmdMax < 0 \/ sCfg.cmdMax > 100
    \/ sCfg.cmdMin < 0 \/ sCfg.cmdMin > 100
    \/ \E s \in {sCfg.envMax, sCfg.envMin, sCfg.fileMax, sCfg.fileMin} :
          InvalidPercent(s)

NeverRan == stpc # "running" /\ sRefreshes = 0 /\ sChecks = 0

\* the half of C25 about the time zone: with an invalid time zone the
\* scheduler never runs
InvalidTimezoneIsFatal == InvalidTimezone => NeverRan

\* C25: with an invalid time zone or an invalid threshold configuration the
\* start-up fails: the scheduler never enters the running state, no
\* inventory refresh and no trigger check happens.
C25_ConfigErrorsFatal == (InvalidTimezone \/ InvalidThresholds) => NeverRan

\* the step in which run r is refused the run lock
Refused(r) == path[r] # "locked" /\ path'[r] = "locked"

\* C26: a trigger that cannot acquire the run lock is a soft skip: it makes
\* no remote call, leaves the persisted execution status and the holder's
\* lock as they are, and records no failure.
C26_LockedIsSoftSkip ==
    /\ [](\A r \in Runs : path[r] = "locked" =>
              /\ outcome[r] = NoOutcome
              /\ src[r] = <<>>
              /\ saved[r] = <<>>
              /\ lpc[r] = "failed")
    /\ [][\A r \in Runs : Refused(r) =>
              /\ statusFile' = statusFile
              /\ lockFile' = lockFile
              /\ lockFile.exists /\ lockFile.pid # r
              /\ tpc'[r] = "done"]_vars

\* a run was refused while the holder went on to complete and record
C26_Witness ==
    \E r, q \in Runs :
        /\ path[r] = "locked"
        /\ tpc[r] = "done"
        /\ q # r
        /\ path[q] = "completed"
        /\ statusFile # <<>>

(***************************************************************************)
(* Properties of the filter as a function                                  *)
(***************************************************************************)
\* the three rules of the filter
PassesRules(sub, f) ==
    /\ ~ExcludedByMonthly(sub, f)
    /\ ~isPAYGO(sub)
    /\ ~ExcludedByTargets(sub, f)

\* the positions of the input found in the output (the k-th input has ID k)
KeptPositions == {fOut[i].ID : i \in 1..Len(fOut)}

\* an empty billing type passing every rule but, possibly, the monthly one
UntypedCandidate(sub, f) ==
    /\ f.RequireMonthly
    /\ TrimSpace(sub.PlanType) = sEmpty
    /\ ~isPAYGO(sub)
    /\ ~ExcludedByTargets(sub, f)

\* C27: the output of FilterSubscriptions is exactly the input's
\* subscriptions that pass the three rules, in input order, unchanged and
\* none twice; an empty billing type is not excluded by the monthly rule;
\* an empty output is an ordinary result.
C27_FilterIsQualifyingSubsequence ==
    fpc = "filtered" =>
        /\ \A i \in 1..Len(fOut) :
              fOut[i].ID \in 1..Len(fSubs) /\ fOut[i] = fSubs[fOut[i].ID]
        /\ \A i, j \in 1..Len(fOut) : i < j => fOut[i].ID < fOut[j].ID
        /\ \A k \in 1..Len(fSubs) :
              k \in KeptPositions <=> PassesRules(fSubs[k], fFilter)
        /\ \A k \in 1..Len(fSubs) :
              UntypedCandidate(fSubs[k], fFilter) => k \in KeptPositions

\* two subscriptions are kept around none, one of them with an empty billing
\* type under RequireMonthly
C27_Witness ==
    /\ fpc = "filtered"
    /\ fFilter.RequireMonthly
    /\ Len(fSubs) = MaxList
    /\ 0 < Len(fOut) /\ Len(fOut) < Len(fSubs)
    /\ \E i \in 1..Len(fOut) : fOut[i].PlanType = sEmpty

\* C28: filtering the output of FilterSubscriptions again with the same
\* policy gives the same ordered list.
C28_FilterIdempotent == fAgain # <<>> => fAgain[1] = fOut

\* the second pass ran on an output that had lost part of the input
C28_Witness ==
    /\ fAgain # <<>>
    /\ fAgain[1] # <<>>
    /\ Len(fOut) < Len(fSubs)
    /\ TargetNames(fFilter) # {}

(***************************************************************************)
(* Properties of the target name matching                                  *)
(***************************************************************************)
\* the allow-list of the policy, normalized: lower-cased, with punctuation,
\* whitespace and separators stripped
NormalizedAllowList == buildTargetPlanSet(qPolicy.TargetPlans)

\* the subscription's name or its plan's name is on the allow-list
OnAllowList ==
    \/ normalizePlanIdentifier(qSub.SubscriptionName) \in NormalizedAllowList
    \/ normalizePlanIdentifier(qSub.PlanSubscriptionName) \in NormalizedAllowList

\* the other two rules of the filter let the subscription through
PassesOtherRules == ~ExcludedByMonthly(qSub, qPolicy) /\ ~isPAYGO(qSub)

\* C29: with a non-empty allow-list the filter keeps a subscription (that
\* the other rules let through) exactly when the normalized form of its
\* name or of its plan's name equals the normalized form of some target, so
\* names that differ only in case, spaces or separators match.
C29_AllowListNormalized ==
    (qKept # <<>> /\ NormalizedAllowList # {} /\ PassesOtherRules) =>
        (qKept[1] <=> OnAllowList)

\* the same statement with the normalization the filter applies: lower-cased
\* and trimmed at both ends only
AllowListTrimmedOnly ==
    (qKept # <<>> /\ TargetNames(qPolicy) # {} /\ PassesOtherRules) =>
        (qKept[1] <=> \/ ToLower(TrimSpace(qSub.SubscriptionName)) \in TargetNames(qPolicy)
                      \/ ToLower(TrimSpace(qSub.PlanSubscriptionName)) \in TargetNames(qPolicy))

\* C30: matchesTargetPlan never matches a subscription whose billing type
\* is non-empty and not monthly, targeted or not; with an empty target set
\* it matches every monthly subscription; with targets it matches a monthly
\* subscription exactly when its normalized name or plan name is in the set.
C30_MatchesTargetPlan ==
    qMatch # <<>> =>
        LET type == TrimSpace(ToUpper(qSub.PlanType))
        IN  /\ (type # sEmpty /\ type # sMONTHLY) => ~qMatch[1]
            /\ (type = sMONTHLY /\ NormalizedAllowList = {}) => qMatch[1]
            /\ (type = sMONTHLY /\ NormalizedAllowList # {}) =>
                   (qMatch[1] <=> OnAllowList)

\* a pay-per-use subscription named by the target set is not matched
C30_Witness ==
    /\ qMatch = <<FALSE>>
    /\ TrimSpace(ToUpper(qSub.PlanType)) = sPAY_PER_USE
    /\ NormalizedAllowList # {}
    /\ OnAllowList

\* a monthly subscription is matched through a name that differs from the
\* target in case and separators
MatchedThroughSeparators ==
    /\ qMatch = <<TRUE>>
    /\ NormalizedAllowList # {}
    /\ ToLower(TrimSpace(qSub.SubscriptionName)) \notin TargetNames(qPolicy)
    /\ ToLower(TrimSpace(qSub.PlanSubscriptionName)) \notin TargetNames(qPolicy)

(***************************************************************************)
(* Properties of the application entry point                               *)
(***************************************************************************)
AppReturned == apc = "returned"

\* C31: in mode `run` one key starts the single-account scheduler and never
\* the multi-account path, two or more keys start the multi-account
\* scheduler over the active accounts and never the single-account one;
\* mode `test` starts no scheduler and makes no reset; no key (outside
\* `list`) or an unknown mode returns an error without starting anything.
C31_ModeDispatch ==
    /\ (aMode = "run" /\ aKeys = 1) =>
          /\ aPath \in {"none", "single"}
          /\ aSched # "multi"
          /\ (AppReturned /\ ~aErr) => aSched = "single"
    /\ (aMode = "run" /\ aKeys >= 2) =>
          /\ aPath \in {"none", "multi"}
          /\ aSched # "single"
          /\ aSched = "multi" => (aAccounts = aActive /\ aAccounts # {})
          /\ (AppReturned /\ ~aErr) => aSched = "multi"
    /\ aMode = "test" => (aSched = "none" /\ aResets = 0)
    /\ ((aKeys = 0 /\ aMode # "list") \/ aMode \notin {"list", "test", "run", "manual"}) =>
          /\ aPath = "none" /\ aSched = "none" /\ aResets = 0
          /\ AppReturned => aErr

\* two keys or more, and the multi-account scheduler runs over the active
\* accounts, fewer than the keys
C31_Witness ==
    /\ aMode = "run"
    /\ aKeys >= 2
    /\ aSched = "multi"
    /\ aAccounts # {}
    /\ Cardinality(aAccounts) < aKeys

(***************************************************************************)
(* Further properties of the executor                                      *)
(***************************************************************************)
\* the verification fetches made for the subscription in progress
Refetches == {i \in 1..Len(hist) : hist[i].fetch # "none"}

\* exactly one of success, skipped and failed
OneOutcome(r) ==
    /\ Success(r) \/ r.Skipped \/ r.Err # NoErr
    /\ ~(r.Skipped /\ r.Err # NoErr)

AttemptsBounded ==
    /\ \A id \in 1..Len(posts) : posts[id] <= 2
    /\ Len(hist) <= 2
    /\ Cardinality(Refetches) <= 2
    /\ result.Attempts <= 2
    /\ \A i \in 1..Len(results) :
          results[i].Attempts <= 2 /\ OneOutcome(results[i])

\* C32: whatever the remote service does, processing a subscription ends
\* after at most two reset calls and two verification fetches, with exactly
\* one of success, skipped and failed, and never more than 2 attempts.
C32_TerminatesWithinTwoAttempts == []AttemptsBounded /\ <>(pc = "done")

\* a run that ended after two reset calls and two fetches, as a failure
C32_Witness ==
    /\ pc = "done"
    /\ \E id \in 1..Len(posts) : posts[id] = 2
    /\ Cardinality(Refetches) = 2
    /\ results # <<>>
    /\ LastResult.Attempts = 2
    /\ LastResult.Err # NoErr

\* attempt k was acknowledged and its fetch showed no full reset and a reset
\* count below the trigger's minimum
Ineffective(k) ==
    /\ hist[k].call = "ack"
    /\ hist[k].fetch = "ok"
    /\ ~(hist[k].fc > hist[k].bc /\ hist[k].fr < hist[k].br)
    /\ hist[k].fr < minRequiredResetTimes(opts)

\* C33: an attempt after which the ledger shows no credit increase together
\* with a count decrease, and a reset count below the trigger's minimum,
\* ends the subscription as a failure at that attempt, attempt 1 included,
\* and no further reset call is made.
C33_IneligibleEndsAtOnce ==
    \A k \in 1..Len(hist) :
        Ineffective(k) =>
            /\ k = Len(hist)
            /\ Finished
            /\ LastResult.Err # NoErr
            /\ ~LastResult.Skipped
            /\ LastResult.Attempts = k
            /\ posts[LastResult.Subscription.ID] = k

\* the first attempt of a `first` trigger consumed a count without the
\* balance rising, and the run ended there
C33_Witness ==
    /\ pc = "done"
    /\ Len(hist) = 1
    /\ Ineffective(1)
    /\ opts.ResetType = sFirst
    /\ hist[1].fr < hist[1].br

\* C34: once a `first` trigger has finished with a subscription, whatever
\* the outcome, the resets it caused have left at least one reset count on
\* the ledger for `second`.
C34_FirstLeavesOneReset ==
    (opts.ResetType = sFirst /\ pc = "done") =>
        \A id \in 1..Len(ledger) :
            effects[id] > 0 => ledger[id].ResetTimes >= 1

\* the same for runs in which every acknowledged reset reached the ledger
\* before the verification fetch or never
FirstLeavesOneWithoutDelay ==
    (opts.ResetType = sFirst /\ \A k \in 1..Len(hist) : hist[k].eff # "later") =>
        \A id \in 1..Len(ledger) :
            effects[id] > 0 => ledger[id].ResetTimes >= 1

\* the results so far are those of the first targets, one each, in order
ResultsFollowTargets ==
    /\ Len(results) <= Len(targets)
    /\ \A i \in 1..Len(results) : results[i].Subscription.ID = targets[i].ID

\* C39: Execute returns exactly one result per eligible subscription, in the
\* order of the filter's output; a skipped or failed subscription does not
\* keep the later ones of the account from being processed.
C39_OneResultPerTarget ==
    /\ ResultsFollowTargets
    /\ (pc = "done" /\ ~execErr) => Len(results) = Len(targets)

\* two eligible subscriptions: the first failed, the second was reset
C39_Witness ==
    /\ pc = "done"
    /\ Len(targets) = 2
    /\ Len(results) = 2
    /\ results[1].Err # NoErr
    /\ Success(results[2])
    /\ results[2].Attempts > 0

(***************************************************************************)
(* Claims about a day of the scheduler loop                                *)
(***************************************************************************)
DayLogged == {dLog[i] : i \in 1..Len(dLog)}

\* a check made for a tick that fired in the minute of an enabled trigger
TickAtMark(e) ==
    /\ e.tick # <<>>
    /\ MarkOf(e.tick[1]) # NoMark
    /\ MarkOf(e.tick[1]) = sFirst => dEnableFirst

\* C35: while the loop runs, a tick that fires in the minute of a configured
\* trigger has that trigger's execution started by its own trigger check,
\* also when the tick refreshes the inventory first.
C35_TickAtMarkStartsTrigger ==
    \A e \in DayLogged : TickAtMark(e) => e.kind = MarkOf(e.tick[1])

\* the same for the ticks whose check is made in the minute they fired in
TickAtMarkCheckedInTime ==
    \A e \in DayLogged :
        (TickAtMark(e) /\ Minute(e.at) = Minute(e.tick[1]))
            => e.kind = MarkOf(e.tick[1])

\* C36: on a day when `first` ran at its mark, the check made at the `second`
\* mark is not refused by the minimum-interval gate, however long the
\* `first` run took.
C36_SecondNotGated ==
    \A i, j \in 1..Len(dLog) :
        (/\ i < j
         /\ dLog[i].kind = sFirst
         /\ dLog[i].path = "execute"
         /\ dLog[j].kind = sSecond)
            => dLog[j].path # "gate"

\* the same when the `first` run had returned within the slack between the
\* two marks and the minimum interval
SecondNotGatedAfterShortRun ==
    \A e \in DayLogged :
        (/\ e.kind = sSecond
         /\ dStatusFile # <<>>
         /\ dStatusFile[1].LastFirstResetTime # NoTimestamp
         /\ dStatusFile[1].LastFirstResetTime[1] + MinResetInterval * SlicesPerMinute
                <= Clock(SecondResetHour, SecondResetMinute))
            => e.path # "gate"

\* a trigger check made in the minute of the first mark with the first
\* trigger disabled
DisabledFirstCheck ==
    /\ dPc = "check"
    /\ ~dEnableFirst
    /\ MarkOf(dClock) = sFirst

\* the first check of the day that started the `second` trigger
FirstSecondCheck(i) ==
    /\ dLog[i].kind = sSecond
    /\ \A j \in 1..(i - 1) : dLog[j].kind # sSecond

\* C40: with the first trigger disabled, a trigger check at the first mark
\* acquires no lock, makes no remote call and leaves the stored status as it
\* is, and the second trigger of that day goes on to execute.
C40_DisabledFirstIsInert ==
    /\ [][DisabledFirstCheck =>
            /\ dLocks' = dLocks
            /\ dRemote' = dRemote
            /\ dStatusFile' = dStatusFile
            /\ dPc' = "wait"]_vars
    /\ [](~dEnableFirst =>
            \A i \in 1..Len(dLog) : FirstSecondCheck(i) => dLog[i].path = "execute")

\* the first mark was checked with the trigger disabled and the second
\* trigger has run since
C40_Witness ==
    /\ ~dEnableFirst
    /\ \E i, j \in 1..Len(dLog) :
          /\ i < j
          /\ MarkOf(dLog[i].at) = sFirst
          /\ dLog[i].kind = NoMark
          /\ dLog[j].kind = sSecond
          /\ dLog[j].path = "execute"
    /\ dPc = "wait"
    /\ dStatusFile # <<>>
    /\ dStatusFile[1].SecondResetToday

\* C37: reclaiming a stale lock is safe: once a second run has overridden a
\* lock older than the staleness window, the ReleaseLock of the original
\* holder leaves the new holder's lock in place.
C37_ReclaimIsSafe ==
    \A c1, c2 \in Callers :
        (/\ c1 # c2
         /\ lpc[c1] = "released"
         /\ lpc[c2] = "held"
         /\ startTime[c2] - startTime[c1] >= StaleMinutes)
            => (lockFile.exists /\ lockFile.pid = c2)

\* the same as long as the original holder has not called ReleaseLock
ReclaimedLockStaysUntilRelease ==
    \A c \in Callers :
        (c # 1 /\ lpc[c] = "held" /\ \A q \in Callers : lpc[q] # "released")
            => lockFile.exists

\* the age check of AcquireLock refuses whatever the operation names are
FreshLockRefuses ==
    \A c \in Callers :
        (lpc[c] = "load" /\ lockFile.exists /\ LockIsFresh(lockFile, now))
            => lpc'[c] # "write"

\* C38: the lock belongs to the data directory, not to an operation: while a
\* lock younger than the staleness window exists AcquireLock fails for every
\* operation name, so at most one trigger of any kind holds the lock at a
\* time.
C38_OneHolderPerDirectory ==
    /\ [][FreshLockRefuses]_vars
    /\ [](\A c1, c2 \in Callers : (Holds(c1) /\ Holds(c2)) => c1 = c2)

\* the first half alone, for callers with different operation names
C38_RefusalIgnoresOperation ==
    [][\A c \in Callers :
          (/\ lpc[c] = "load"
           /\ lockFile.exists
           /\ LockIsFresh(lockFile, now)
           /\ lockFile.op # lop[c]
           /\ lpc'[c] # lpc[c])
              => lpc'[c] = "failed"]_vars

InitTrigger == TrigInit /\ FilterIdle /\ ExecIdle /\ FanIdle /\ LoopIdle /\ ExtIdle

InitRecord == RecordInit /\ FilterIdle /\ ExecIdle /\ FanIdle /\ LoopIdle /\ ExtIdle

InitFanOut == FanInit /\ FilterIdle /\ ExecIdle /\ LockIdle /\ TrigIdle /\ LoopIdle /\ ExtIdle

InitLoop == LoopInit /\ FilterIdle /\ ExecIdle /\ LockIdle /\ TrigIdle /\ FanIdle /\ ExtIdle

InitStop == StopInit /\ FilterIdle /\ ExecIdle /\ LockIdle /\ SchedIdle /\ SaveIdle /\ ManIdle /\ StartIdle /\ MatchIdle /\ AppIdle /\ DayIdle

InitSave == SaveInit /\ FilterIdle /\ ExecIdle /\ LockIdle /\ SchedIdle /\ StopIdle /\ ManIdle /\ StartIdle /\ MatchIdle /\ AppIdle /\ DayIdle

InitManual == ManInit /\ FilterIdle /\ ExecIdle /\ LockIdle /\ SchedIdle /\ StopIdle /\ SaveIdle /\ StartIdle /\ MatchIdle /\ AppIdle /\ DayIdle

InitStart == StartInit /\ FilterIdle /\ ExecIdle /\ LockIdle /\ SchedIdle /\ StopIdle /\ SaveIdle /\ ManIdle /\ MatchIdle /\ AppIdle /\ DayIdle

InitMatch == MatchInit /\ FilterIdle /\ ExecIdle /\ LockIdle /\ SchedIdle /\ StopIdle /\ SaveIdle /\ ManIdle /\ StartIdle /\ AppIdle /\ DayIdle

InitApp == AppInit /\ FilterIdle /\ ExecIdle /\ LockIdle /\ SchedIdle /\ StopIdle /\ SaveIdle /\ ManIdle /\ StartIdle /\ MatchIdle /\ DayIdle

InitDay == DayInit /\ FilterIdle /\ ExecIdle /\ LockIdle /\ SchedIdle /\ StopIdle /\ SaveIdle /\ ManIdle /\ StartIdle /\ MatchIdle /\ AppIdle

SpecFilter == InitFilter /\ [][FilterNext]_vars

SpecExec == InitExec /\ [][ExecNext]_vars

\* the runner keeps taking steps whatever the remote service does
SpecExecFair == InitExecFair /\ [][ExecNext]_vars /\ WF_vars(RunnerNext)

SpecBatch == InitBatch /\ [][BatchNext]_vars

SpecReclaim == InitReclaim /\ [][LockNext]_vars

SpecPlanChange == InitPlanChange /\ [][PlanNext]_vars

SpecLock == InitLock /\ [][LockNext]_vars

SpecTrigger == InitTrigger /\ [][TrigNext]_vars

SpecRecord == InitRecord /\ [][TrigNext]_vars

\* goroutines that can take a step are scheduled
SpecFanOut == InitFanOut /\ [][FanNext]_vars /\ WF_vars(FanNext)

SpecLoop == InitLoop /\ [][LoopNext]_vars

SpecStop == InitStop /\ [][StopNext]_vars

SpecSave == InitSave /\ [][SaveNext]_vars

SpecManual == InitManual /\ [][ManNext]_vars

SpecStart == InitStart /\ [][StartNext]_vars

SpecMatch == InitMatch /\ [][MatchNext]_vars

SpecApp == InitApp /\ [][AppNext]_vars

SpecDay == InitDay /\ [][DayNext]_vars

====
